---- MODULE Spec2Model ----
(***************************************************************************)
(* A model of the OpenThread external commissioner application             *)
(* (CommissionerApp): the session guard of every operation, the four       *)
(* cached datasets and their MergeDataset routines, and the joiner map     *)
(* with its steering data maintenance.                                     *)
(*                                                                         *)
(* The Commissioner library behind mCommissioner (petition, MGMT_* get and *)
(* set, AddJoiner) is not part of the sources; it is modelled from the     *)
(* specification and kept in the definitions whose names start with Lib    *)
(* and in AddJoiner.  A "request" in this model is a call CommissionerApp  *)
(* makes on mCommissioner.                                                 *)
(***************************************************************************)
EXTENDS Integers, Sequences, FiniteSets, TLC

VARIABLES
    mState,          \* the session state kept by mCommissioner
    mCcm,            \* mCommissioner->IsCcmMode(), fixed by the configuration
    mCommDataset,    \* CommissionerApp::mCommDataset
    mActiveDataset,  \* CommissionerApp::mActiveDataset
    mPendingDataset, \* CommissionerApp::mPendingDataset
    mBbrDataset,     \* CommissionerApp::mBbrDataset
    mJoiners,        \* CommissionerApp::mJoiners, a std::map as a set of entries
    lastEnable,      \* history: the last call, when it was a successful EnableJoiner
    lastOp,          \* history: the last API call, its result and its requests
    opsLeft,         \* bound: number of API calls the run may still make
    mrg,             \* inputs and result of a MergeDataset call (MergeSpec)
    asyncGets,       \* GETs of HandleDatasetChanged whose callback has not run
    mPanIdConflicts, \* CommissionerApp::mPanIdConflicts, PAN ID -> channel mask
    mEnergyReports,  \* CommissionerApp::mEnergyReports, address -> report
    kaTimeouts       \* keep-alives of the session that timed out in a row

vars == <<mState, mCcm, mCommDataset, mActiveDataset, mPendingDataset,
          mBbrDataset, mJoiners, lastEnable, lastOp, opsLeft, mrg, asyncGets,
          mPanIdConflicts, mEnergyReports, kaTimeouts>>

reports == <<mPanIdConflicts, mEnergyReports>>

caches == <<mCommDataset, mActiveDataset, mPendingDataset, mBbrDataset>>

-----------------------------------------------------------------------------
(* Bounds of the model *)

MaxOps == 3

MaxDeepOps == 4

MaxPresent == 1

\* the EUI-64s ComputeJoinerId is applied to on its own go up to this index
MaxEui == 63

(* Program constants *)

kJoinerIdLength == 8

kLocalExternalAddrMask == 2

kHashSize == 32

-----------------------------------------------------------------------------
(* Input domains *)

Eui64s == {0, 1, 2}

JoinerTypes == {"kMeshCoP", "kAE", "kNMKP"}

PSKds == {"J01NME", "PSKD02"}

UdpPorts == {1000}

Delays == {5000}

\* values a caller passes, and values the network holds
CallerValues == {1}

RemoteValues == {5}

None == [none |-> TRUE]

-----------------------------------------------------------------------------
(* Errors *)

NoError == [code |-> "kNone", msg |-> ""]

ERROR_INVALID_STATE(m) == [code |-> "kInvalidState", msg |-> m]

ERROR_ALREADY_EXISTS(m) == [code |-> "kAlreadyExists", msg |-> m]

ERROR_NOT_FOUND(m) == [code |-> "kNotFound", msg |-> m]

ERROR_REJECTED(m) == [code |-> "kRejected", msg |-> m]

ErrNotActive == ERROR_INVALID_STATE("the commissioner is not active")

ErrNotCcm == ERROR_INVALID_STATE("the commissioner is not in CCM Mode")

ErrTimeout == [code |-> "kTimeout", msg |-> "request timed out"]

-----------------------------------------------------------------------------
(* Datasets: a presence bitmap and the field values *)

ActiveFieldSeq ==
    <<"ActiveTimestamp", "Channel", "ChannelMask", "ExtendedPanId",
      "MeshLocalPrefix", "NetworkMasterKey", "NetworkName", "PanId", "PSKc",
      "SecurityPolicy">>

PendingOnlyFieldSeq == <<"PendingTimestamp", "DelayTimer">>

BbrFieldSeq == <<"TriHostname", "RegistrarHostname", "RegistrarIpv6Addr">>

CommPlainFieldSeq == <<"BorderAgentLocator", "SessionId">>

CommExtFieldSeq ==
    <<"SteeringData", "AeSteeringData", "NmkpSteeringData", "JoinerUdpPort",
      "AeUdpPort", "NmkpUdpPort">>

Range(s) == {s[i] : i \in 1 .. Len(s)}

ActiveFields == Range(ActiveFieldSeq)

PendingFields == ActiveFields \cup Range(PendingOnlyFieldSeq)

BbrFields == Range(BbrFieldSeq)

CommFields == Range(CommPlainFieldSeq) \cup Range(CommExtFieldSeq)

SteeringFields == {"SteeringData", "AeSteeringData", "NmkpSteeringData"}

DefaultValue(f) == IF f \in SteeringFields THEN <<>> ELSE 0

EmptyDataset(fields) ==
    [mPresentFlags |-> {}, val |-> [f \in fields |-> DefaultValue(f)]]

Has(ds, f) == f \in ds.mPresentFlags

SetField(ds, f, v) ==
    [mPresentFlags |-> ds.mPresentFlags \cup {f},
     val |-> [ds.val EXCEPT ![f] = v]]

ClearBit(ds, f) == [ds EXCEPT !.mPresentFlags = @ \ {f}]

-----------------------------------------------------------------------------
(* MergeDataset *)

TestAndSet(aDst, aSrc, name) ==
    IF name \in aSrc.mPresentFlags
    THEN [mPresentFlags |-> aDst.mPresentFlags \cup {name},
          val |-> [aDst.val EXCEPT ![name] = aSrc.val[name]]]
    ELSE aDst

TestAndSetOrClear(aDst, aSrc, name) ==
    IF name \in aSrc.mPresentFlags
    THEN [mPresentFlags |-> aDst.mPresentFlags \cup {name},
          val |-> [aDst.val EXCEPT ![name] = aSrc.val[name]]]
    ELSE [aDst EXCEPT !.mPresentFlags = @ \ {name}]

RECURSIVE TestAndSetAll(_, _, _)
TestAndSetAll(aDst, aSrc, names) ==
    IF names = <<>> THEN aDst
    ELSE TestAndSetAll(TestAndSet(aDst, aSrc, Head(names)), aSrc, Tail(names))

RECURSIVE TestAndSetOrClearAll(_, _, _)
TestAndSetOrClearAll(aDst, aSrc, names) ==
    IF names = <<>> THEN aDst
    ELSE TestAndSetOrClearAll(TestAndSetOrClear(aDst, aSrc, Head(names)),
                              aSrc, Tail(names))

MergeActiveDataset(aDst, aSrc) == TestAndSetAll(aDst, aSrc, ActiveFieldSeq)

MergePendingDatasetMutant(aDst, aSrc) ==
    TestAndSetAll(aDst, aSrc, PendingOnlyFieldSeq)

MergePendingDataset(aDst, aSrc) ==
    TestAndSetAll(MergeActiveDataset(aDst, aSrc), aSrc, PendingOnlyFieldSeq)

MergeBbrDataset(aDst, aSrc) == TestAndSetAll(aDst, aSrc, BbrFieldSeq)

MergeCommDatasetMutant(aDst, aSrc) ==
    TestAndSetAll(aDst, aSrc, CommPlainFieldSeq \o CommExtFieldSeq)

MergeCommDataset(aDst, aSrc) ==
    TestAndSetOrClearAll(TestAndSetAll(aDst, aSrc, CommPlainFieldSeq),
                         aSrc, CommExtFieldSeq)

-----------------------------------------------------------------------------
(* Bytes *)

RECURSIVE BitOr(_, _)
BitOr(a, b) ==
    IF a = 0 THEN b
    ELSE IF b = 0 THEN a
    ELSE (IF a % 2 = 1 \/ b % 2 = 1 THEN 1 ELSE 0)
         + 2 * BitOr(a \div 2, b \div 2)

RECURSIVE Pow(_, _)
Pow(b, n) == IF n = 0 THEN 1 ELSE b * Pow(b, n - 1)

TestBit(byte, k) == (byte \div Pow(2, k)) % 2 = 1

\* utils::Encode(ByteArray &, uint64_t): the eight bytes, most significant first
RECURSIVE EncodeBytes(_, _)
EncodeBytes(v, n) ==
    IF n = 0 THEN <<>> ELSE Append(EncodeBytes(v \div 256, n - 1), v % 256)

Encode(aEui64) == EncodeBytes(aEui64, 8)

RECURSIVE Mix(_, _)
Mix(bytes, acc) ==
    IF bytes = <<>> THEN acc
    ELSE Mix(Tail(bytes), (acc * 31 + Head(bytes) + 7) % 65536)

\* Sha256::Start/Update/Finish: a digest of kHashSize bytes.  The digest is a
\* library function; a fixed mixing function stands for it.
Sha256(bytes) ==
    LET m == Mix(bytes, 11)
    IN  [i \in 1 .. kHashSize |-> (m * 13 + i * 29) % 256]

ComputeJoinerIdMutant(aEui64) ==
    LET eui64 == Encode(aEui64)
        hash == Sha256(eui64)
    IN  SubSeq(hash, 1, kJoinerIdLength)

ComputeJoinerId(aEui64) ==
    LET eui64 == Encode(aEui64)
        hash == Sha256(eui64)
        joinerId == SubSeq(hash, 1, kJoinerIdLength)
    IN  [joinerId EXCEPT ![1] = BitOr(@, kLocalExternalAddrMask)]

\* CRC16-CCITT of a joiner ID; a fixed checksum stands for the library routine.
Crc16Ccitt(aJoinerId) == Mix(aJoinerId, 0)

\* Commissioner::AddJoiner: sets the bit of the joiner ID in the bloom filter;
\* byte len-1 - (crc % (8*len)) / 8 counted from 0, an empty filter starting
\* as one zero byte.
AddJoiner(aSteeringData, aJoinerId) ==
    LET sd == IF aSteeringData = <<>> THEN <<0>> ELSE aSteeringData
        len == Len(sd)
        bit == Crc16Ccitt(aJoinerId) % (8 * len)
        idx == len - (bit \div 8)
    IN  [sd EXCEPT ![idx] = BitOr(@, Pow(2, bit % 8))]

\* the admission test of the steering data for a joiner ID
Admits(aSteeringData, aJoinerId) ==
    /\ aSteeringData # <<>>
    /\ LET len == Len(aSteeringData)
           bit == Crc16Ccitt(aJoinerId) % (8 * len)
       IN  TestBit(aSteeringData[len - (bit \div 8)], bit % 8)

-----------------------------------------------------------------------------
(* The joiner map *)

JoinerKey(aType, aId) == [mType |-> aType, mId |-> aId]

JoinerInfo(aType, aEui64, aPSKd, aProvisioningUrl) ==
    [mType |-> aType, mEui64 |-> aEui64, mPSKd |-> aPSKd,
     mProvisioningUrl |-> aProvisioningUrl, mIsCommissioned |-> FALSE]

JoinerCreds ==
    {[pskd |-> "J01NME", url |-> ""], [pskd |-> "PSKD02", url |-> "https://p.url"]}

Count(m, key) == Cardinality({kv \in m : kv.key = key})

\* std::map::emplace: no insertion when the key is already there
Emplace(m, key, info) ==
    IF \E kv \in m : kv.key = key THEN m
    ELSE m \cup {[key |-> key, info |-> info]}

Erase(m, key) == {kv \in m : kv.key # key}

EraseAllJoinersMutant(m, aJoinerType) == {kv \in m : kv.key.mType = aJoinerType}

EraseAllJoiners(m, aJoinerType) == {kv \in m : kv.key.mType # aJoinerType}

SteeringField(aJoinerType) ==
    CASE aJoinerType = "kMeshCoP" -> "SteeringData"
      [] aJoinerType = "kAE" -> "AeSteeringData"
      [] aJoinerType = "kNMKP" -> "NmkpSteeringData"

UdpPortField(aJoinerType) ==
    CASE aJoinerType = "kMeshCoP" -> "JoinerUdpPort"
      [] aJoinerType = "kAE" -> "AeUdpPort"
      [] aJoinerType = "kNMKP" -> "NmkpUdpPort"

\* GetSteeringData(CommissionerDataset &, JoinerType): sets the present bit
\* and hands out the field
GetSteeringDataRef(aDataset, aJoinerType) ==
    [aDataset EXCEPT !.mPresentFlags = @ \cup {SteeringField(aJoinerType)}]

\* GetJoinerUdpPort(CommissionerDataset &, JoinerType)
GetJoinerUdpPortRef(aDataset, aJoinerType) ==
    [aDataset EXCEPT !.mPresentFlags = @ \cup {UdpPortField(aJoinerType)}]

\* the copy of mCommDataset every joiner operation starts from
OutboundCopy(aDataset) ==
    ClearBit(ClearBit(aDataset, "SessionId"), "BorderAgentLocator")

-----------------------------------------------------------------------------
(* The Commissioner library, from the specification *)

IsActive == mState = "Active"

IsCcmMode == mCcm

Req(uri, arg) == [uri |-> uri, arg |-> arg]

SetUris ==
    {"MGMT_ACTIVE_SET", "MGMT_PENDING_SET", "MGMT_COMMISSIONER_SET",
     "MGMT_BBR_SET"}

\* results of a request made on mCommissioner
LibResults == IF IsActive THEN {NoError, ErrTimeout} ELSE {ErrNotActive}

LibPetitionResults ==
    IF IsActive THEN {ERROR_INVALID_STATE("petition while active")}
    ELSE {NoError, ERROR_REJECTED("petition rejected"), ErrTimeout}

FullDataset(fields, v) ==
    [mPresentFlags |-> fields,
     val |-> [f \in fields |-> IF f \in SteeringFields THEN <<v>> ELSE v]]

Restrict(ds, keep) == [ds EXCEPT !.mPresentFlags = @ \cap keep]

\* what the network may return for MGMT_COMMISSIONER_GET
RemoteCommDatasets ==
    {Restrict(FullDataset(CommFields, v), keep) :
        v \in RemoteValues,
        keep \in {{"BorderAgentLocator", "SessionId"},
                  {"BorderAgentLocator", "SessionId", "SteeringData", "JoinerUdpPort"}}}

\* what the network may return for MGMT_ACTIVE_GET
RemoteActiveDatasets ==
    {FullDataset(ActiveFields, v) : v \in RemoteValues}

\* what the network may return for MGMT_PENDING_GET
RemotePendingDatasets ==
    {EmptyDataset(PendingFields)}

\* what the network may return for MGMT_BBR_GET
RemoteBbrDatasets ==
    {Restrict(FullDataset(BbrFields, v), {"TriHostname"}) : v \in RemoteValues}

-----------------------------------------------------------------------------
(* Bookkeeping of an API call *)

Done(name, args, err, reqs, ret) ==
    /\ lastOp' = [op |-> name, args |-> args, error |-> err, reqs |-> reqs,
                  ret |-> ret, active |-> IsActive, pre |-> lastEnable]
    /\ opsLeft' = opsLeft - 1
    /\ kaTimeouts' = IF name \in {"Start", "Stop"} THEN 0 ELSE kaTimeouts
    /\ UNCHANGED <<mCcm, mrg, asyncGets, reports>>

NoEnable == lastEnable' = None

CanCall == opsLeft > 0

-----------------------------------------------------------------------------
(* Session *)

InitWith(budget) ==
    /\ mState = "Disabled"
    /\ mCcm \in BOOLEAN
    /\ mCommDataset = EmptyDataset(CommFields)
    /\ mActiveDataset = EmptyDataset(ActiveFields)
    /\ mPendingDataset = EmptyDataset(PendingFields)
    /\ mBbrDataset = EmptyDataset(BbrFields)
    /\ mJoiners = {}
    /\ lastEnable = None
    /\ lastOp = [op |-> "Init", args |-> <<>>, error |-> NoError, reqs |-> <<>>,
                 ret |-> None, active |-> FALSE, pre |-> None]
    /\ opsLeft = budget
    /\ mrg = None
    /\ asyncGets = {}
    /\ mPanIdConflicts = <<>>
    /\ mEnergyReports = <<>>
    /\ kaTimeouts = 0

Init == InitWith(MaxOps)

DeepInit == InitWith(MaxDeepOps)

GetReq(uri) == Req(uri, 65535)

\* PullNetworkData as a relation over what the network returns: the error,
\* the requests it made, the datasets returned and the four caches afterwards
PullOutcomesOfMutant(comms, actives, pendings, bbrs) ==
    LET q1 == <<GetReq("MGMT_COMMISSIONER_GET")>>
        q2 == IF IsCcmMode THEN q1 \o <<GetReq("MGMT_BBR_GET")>> ELSE q1
        q3 == q2 \o <<GetReq("MGMT_ACTIVE_GET")>>
        q4 == q3 \o <<GetReq("MGMT_PENDING_GET")>>
        same == [comm |-> mCommDataset, active |-> mActiveDataset,
                 pending |-> mPendingDataset, bbr |-> mBbrDataset]
    IN  {[error |-> ErrTimeout, reqs |-> q, remote |-> None, caches |-> same] :
            q \in {q1, q3, q4} \cup (IF IsCcmMode THEN {q2} ELSE {})}
        \cup
        {[error |-> NoError, reqs |-> q4,
          remote |-> [comm |-> c, active |-> a, pending |-> p, bbr |-> b],
          caches |-> [comm |-> TestAndSetAll(mCommDataset, c,
                                             CommPlainFieldSeq \o CommExtFieldSeq),
                      active |-> a,
                      pending |-> p,
                      bbr |-> IF IsCcmMode THEN b ELSE mBbrDataset]] :
            c \in comms, a \in actives, p \in pendings, b \in bbrs}

\* PullNetworkData writing each cache as soon as its GET succeeded
PullOutcomesOfEagerMutant(comms, actives, pendings, bbrs) ==
    LET q1 == <<GetReq("MGMT_COMMISSIONER_GET")>>
        q2 == IF IsCcmMode THEN q1 \o <<GetReq("MGMT_BBR_GET")>> ELSE q1
        q3 == q2 \o <<GetReq("MGMT_ACTIVE_GET")>>
        q4 == q3 \o <<GetReq("MGMT_PENDING_GET")>>
        same == [comm |-> mCommDataset, active |-> mActiveDataset,
                 pending |-> mPendingDataset, bbr |-> mBbrDataset]
    IN  {[error |-> ErrTimeout, reqs |-> q1, remote |-> None, caches |-> same]}
        \cup
        {[error |-> ErrTimeout, reqs |-> q, remote |-> None,
          caches |-> [same EXCEPT !.comm = MergeCommDataset(mCommDataset, c)]] :
            q \in {q3, q4} \cup (IF IsCcmMode THEN {q2} ELSE {}), c \in comms}
        \cup
        {[error |-> NoError, reqs |-> q4,
          remote |-> [comm |-> c, active |-> a, pending |-> p, bbr |-> b],
          caches |-> [comm |-> MergeCommDataset(mCommDataset, c),
                      active |-> a,
                      pending |-> p,
                      bbr |-> IF IsCcmMode THEN b ELSE mBbrDataset]] :
            c \in comms, a \in actives, p \in pendings, b \in bbrs}

PullOutcomesOf(comms, actives, pendings, bbrs) ==
    LET q1 == <<GetReq("MGMT_COMMISSIONER_GET")>>
        q2 == IF IsCcmMode THEN q1 \o <<GetReq("MGMT_BBR_GET")>> ELSE q1
        q3 == q2 \o <<GetReq("MGMT_ACTIVE_GET")>>
        q4 == q3 \o <<GetReq("MGMT_PENDING_GET")>>
        same == [comm |-> mCommDataset, active |-> mActiveDataset,
                 pending |-> mPendingDataset, bbr |-> mBbrDataset]
    IN  {[error |-> ErrTimeout, reqs |-> q, remote |-> None, caches |-> same] :
            q \in {q1, q3, q4} \cup (IF IsCcmMode THEN {q2} ELSE {})}
        \cup
        {[error |-> NoError, reqs |-> q4,
          remote |-> [comm |-> c, active |-> a, pending |-> p, bbr |-> b],
          caches |-> [comm |-> MergeCommDataset(mCommDataset, c),
                      active |-> a,
                      pending |-> p,
                      bbr |-> IF IsCcmMode THEN b ELSE mBbrDataset]] :
            c \in comms, a \in actives, p \in pendings, b \in bbrs}

PullOutcomes ==
    PullOutcomesOf(RemoteCommDatasets, RemoteActiveDatasets,
                   RemotePendingDatasets, RemoteBbrDatasets)

\* Start against a network whose answers to the four GETs are given
StartWithMutant(comms, actives, pendings, bbrs) ==
    /\ CanCall
    /\ \E r \in LibPetitionResults :
        IF r # NoError
        THEN /\ UNCHANGED <<mState, caches, mJoiners>>
             /\ Done("Start", <<>>, r, <<Req("LEAD_PET", None)>>, None)
             /\ NoEnable
        ELSE \E o \in PullOutcomesOf(comms, actives, pendings, bbrs) :
             /\ mState' = "Active"
             /\ mCommDataset' = IF Has(mCommDataset, "BorderAgentLocator")
                                THEN mCommDataset ELSE o.caches.comm
             /\ mActiveDataset' = o.caches.active
             /\ mPendingDataset' = o.caches.pending
             /\ mBbrDataset' = o.caches.bbr
             /\ UNCHANGED mJoiners
             /\ Done("Start", <<>>, o.error, <<Req("LEAD_PET", None)>> \o o.reqs,
                     o.remote)
             /\ NoEnable

StartWith(comms, actives, pendings, bbrs) ==
    /\ CanCall
    /\ \E r \in LibPetitionResults :
        IF r # NoError
        THEN /\ UNCHANGED <<mState, caches, mJoiners>>
             /\ Done("Start", <<>>, r, <<Req("LEAD_PET", None)>>, None)
             /\ NoEnable
        ELSE \E o \in PullOutcomesOf(comms, actives, pendings, bbrs) :
             /\ mState' = "Active"
             /\ mCommDataset' = o.caches.comm
             /\ mActiveDataset' = o.caches.active
             /\ mPendingDataset' = o.caches.pending
             /\ mBbrDataset' = o.caches.bbr
             /\ UNCHANGED mJoiners
             /\ Done("Start", <<>>, o.error, <<Req("LEAD_PET", None)>> \o o.reqs,
                     o.remote)
             /\ NoEnable

Start ==
    /\ CanCall
    /\ \E r \in LibPetitionResults :
        IF r # NoError
        THEN \* IsActive() decides whether Stop() is called; Resign of a
             \* session that is not active leaves it Disabled
             /\ UNCHANGED <<mState, caches, mJoiners>>
             /\ Done("Start", <<>>, r, <<Req("LEAD_PET", None)>>, None)
             /\ NoEnable
        ELSE \E o \in {[error |-> x.error, reqs |-> x.reqs, caches |-> x.caches] :
                          x \in PullOutcomes} :
             /\ mState' = "Active"
             /\ mCommDataset' = o.caches.comm
             /\ mActiveDataset' = o.caches.active
             /\ mPendingDataset' = o.caches.pending
             /\ mBbrDataset' = o.caches.bbr
             /\ UNCHANGED mJoiners
             /\ Done("Start", <<>>, o.error, <<Req("LEAD_PET", None)>> \o o.reqs, None)
             /\ NoEnable

Stop ==
    /\ CanCall
    /\ mState' = "Disabled"
    /\ UNCHANGED <<caches, mJoiners>>
    /\ Done("Stop", <<>>, NoError, <<Req("LEAD_KA", 0)>>, None)
    /\ NoEnable

-----------------------------------------------------------------------------
(* Joiner operations *)

\* the outcome of an operation that sends aDataset in MGMT_COMMISSIONER_SET
\* and, on success, merges it and replaces the joiner map by aJoiners
CommSetAndMerge(name, args, aDataset, aJoiners) ==
    \E r \in LibResults :
        /\ Done(name, args, r, <<Req("MGMT_COMMISSIONER_SET", aDataset)>>, None)
        /\ IF r = NoError
           THEN /\ mCommDataset' = MergeCommDataset(mCommDataset, aDataset)
                /\ mJoiners' = aJoiners
           ELSE UNCHANGED <<mCommDataset, mJoiners>>
        /\ UNCHANGED <<mState, mActiveDataset, mPendingDataset, mBbrDataset>>

\* an operation that returns before it changes or requests anything
Return(name, args, err, ret) ==
    /\ Done(name, args, err, <<>>, ret)
    /\ UNCHANGED <<mState, caches, mJoiners>>

EnableJoinerDuplicateMutant(aType, joinerId) ==
    \E kv \in mJoiners : kv.key.mId = joinerId

\* the duplicate test of EnableJoiner
EnableJoinerDuplicate(aType, joinerId) ==
    Count(mJoiners, JoinerKey(aType, joinerId)) # 0

EnableJoiner(aType, aEui64, aPSKd, aProvisioningUrl) ==
    LET joinerId == ComputeJoinerId(aEui64)
        copy == GetSteeringDataRef(OutboundCopy(mCommDataset), aType)
        fld == SteeringField(aType)
        commDataset == [copy EXCEPT !.val[fld] = AddJoiner(@, joinerId)]
        args == <<aType, aEui64, aPSKd, aProvisioningUrl>>
    IN  /\ CanCall
        /\ IF ~IsActive
           THEN Return("EnableJoiner", args, ErrNotActive, None) /\ NoEnable
           ELSE IF EnableJoinerDuplicate(aType, joinerId)
           THEN /\ Return("EnableJoiner", args,
                          ERROR_ALREADY_EXISTS("joiner has already been enabled"), None)
                /\ NoEnable
           ELSE /\ CommSetAndMerge("EnableJoiner", args, commDataset,
                       Emplace(mJoiners, JoinerKey(aType, joinerId),
                               JoinerInfo(aType, aEui64, aPSKd, aProvisioningUrl)))
                /\ lastEnable' =
                       IF lastOp'.error = NoError
                       THEN [mType |-> aType, mEui64 |-> aEui64,
                             present |-> Has(mCommDataset, fld),
                             value |-> mCommDataset.val[fld]]
                       ELSE None

\* the loop of DisableJoiner over mJoiners: the steering data built and the
\* joinerId the loop leaves behind
RECURSIVE DisableJoinerLoop(_, _, _, _)
DisableJoinerLoop(entries, aType, aEui64, acc) ==
    IF entries = {} THEN acc
    ELSE LET kv == CHOOSE e \in entries : TRUE
             joiner == kv.info
             rest == entries \ {kv}
         IN  IF joiner.mType = aType /\ joiner.mEui64 = aEui64
             THEN DisableJoinerLoop(rest, aType, aEui64, acc)
             ELSE LET joinerId == ComputeJoinerId(aEui64)
                  IN  DisableJoinerLoop(rest, aType, aEui64,
                          [steeringData |-> AddJoiner(acc.steeringData, joinerId),
                           joinerId |-> joinerId])

DisableJoinerMutant(aType, aEui64) ==
    LET copy == GetSteeringDataRef(OutboundCopy(mCommDataset), aType)
        fld == SteeringField(aType)
        loop == DisableJoinerLoop(mJoiners, aType, aEui64,
                                  [steeringData |-> <<0>>, joinerId |-> <<>>])
        commDataset == [copy EXCEPT !.val[fld] = loop.steeringData]
        args == <<aType, aEui64>>
    IN  /\ CanCall
        /\ NoEnable
        /\ IF ~IsActive
           THEN Return("DisableJoiner", args, ErrNotActive, None)
           ELSE IF Count(mJoiners, JoinerKey(aType, ComputeJoinerId(aEui64))) = 0
           THEN Return("DisableJoiner", args,
                       ERROR_NOT_FOUND("joiner is not enabled"), None)
           ELSE CommSetAndMerge("DisableJoiner", args, commDataset,
                    Erase(mJoiners, JoinerKey(aType, loop.joinerId)))

DisableJoiner(aType, aEui64) ==
    LET copy == GetSteeringDataRef(OutboundCopy(mCommDataset), aType)
        fld == SteeringField(aType)
        loop == DisableJoinerLoop(mJoiners, aType, aEui64,
                                  [steeringData |-> <<0>>, joinerId |-> <<>>])
        commDataset == [copy EXCEPT !.val[fld] = loop.steeringData]
        args == <<aType, aEui64>>
    IN  /\ CanCall
        /\ NoEnable
        /\ IF ~IsActive
           THEN Return("DisableJoiner", args, ErrNotActive, None)
           ELSE CommSetAndMerge("DisableJoiner", args, commDataset,
                    Erase(mJoiners, JoinerKey(aType, loop.joinerId)))

EnableAllJoinersMutant(aType, aPSKd, aProvisioningUrl) ==
    LET copy == GetSteeringDataRef(OutboundCopy(mCommDataset), aType)
        fld == SteeringField(aType)
        commDataset == [copy EXCEPT !.val[fld] = <<255>>]
        args == <<aType, aPSKd, aProvisioningUrl>>
    IN  /\ CanCall
        /\ NoEnable
        /\ IF ~IsActive
           THEN Return("EnableAllJoiners", args, ErrNotActive, None)
           ELSE CommSetAndMerge("EnableAllJoiners", args, commDataset,
                    Emplace(mJoiners,
                            JoinerKey(aType, ComputeJoinerId(0)),
                            JoinerInfo(aType, 0, aPSKd, aProvisioningUrl)))

EnableAllJoiners(aType, aPSKd, aProvisioningUrl) ==
    LET copy == GetSteeringDataRef(OutboundCopy(mCommDataset), aType)
        fld == SteeringField(aType)
        commDataset == [copy EXCEPT !.val[fld] = <<255>>]
        args == <<aType, aPSKd, aProvisioningUrl>>
    IN  /\ CanCall
        /\ NoEnable
        /\ IF ~IsActive
           THEN Return("EnableAllJoiners", args, ErrNotActive, None)
           ELSE CommSetAndMerge("EnableAllJoiners", args, commDataset,
                    Emplace(EraseAllJoiners(mJoiners, aType),
                            JoinerKey(aType, ComputeJoinerId(0)),
                            JoinerInfo(aType, 0, aPSKd, aProvisioningUrl)))

DisableAllJoinersMutant(aType) ==
    LET copy == GetSteeringDataRef(OutboundCopy(mCommDataset), aType)
        fld == SteeringField(aType)
        commDataset == [copy EXCEPT !.val[fld] = <<0>>]
    IN  /\ CanCall
        /\ NoEnable
        /\ IF ~IsActive
           THEN Return("DisableAllJoiners", <<aType>>, ErrNotActive, None)
           ELSE CommSetAndMerge("DisableAllJoiners", <<aType>>, commDataset,
                    Erase(mJoiners, JoinerKey(aType, ComputeJoinerId(0))))

DisableAllJoiners(aType) ==
    LET copy == GetSteeringDataRef(OutboundCopy(mCommDataset), aType)
        fld == SteeringField(aType)
        commDataset == [copy EXCEPT !.val[fld] = <<0>>]
    IN  /\ CanCall
        /\ NoEnable
        /\ IF ~IsActive
           THEN Return("DisableAllJoiners", <<aType>>, ErrNotActive, None)
           ELSE CommSetAndMerge("DisableAllJoiners", <<aType>>, commDataset,
                    EraseAllJoiners(mJoiners, aType))

SetJoinerUdpPort(aType, aUdpPort) ==
    LET copy == GetJoinerUdpPortRef(OutboundCopy(mCommDataset), aType)
        commDataset == [copy EXCEPT !.val[UdpPortField(aType)] = aUdpPort]
    IN  /\ CanCall
        /\ NoEnable
        /\ IF ~IsActive
           THEN Return("SetJoinerUdpPort", <<aType, aUdpPort>>, ErrNotActive, None)
           ELSE CommSetAndMerge("SetJoinerUdpPort", <<aType, aUdpPort>>,
                                commDataset, mJoiners)

\* datasets a caller may hand to the raw SetCommissionerDataset
CallerCommDatasets ==
    {SetField(EmptyDataset(CommFields), "JoinerUdpPort", v) : v \in CallerValues}
    \cup {SetField(SetField(EmptyDataset(CommFields), "SessionId", v),
                   "SteeringData", <<255>>) : v \in CallerValues}

SetCommissionerDataset(aDataset) ==
    /\ CanCall
    /\ NoEnable
    /\ CommSetAndMerge("SetCommissionerDataset", <<aDataset>>, aDataset, mJoiners)

GetSteeringData(aJoinerType) ==
    /\ CanCall
    /\ NoEnable
    /\ IF ~IsActive
       THEN Return("GetSteeringData", <<aJoinerType>>, ErrNotActive, None)
       ELSE IF ~Has(mCommDataset, SteeringField(aJoinerType))
       THEN Return("GetSteeringData", <<aJoinerType>>,
                   ERROR_NOT_FOUND("cannot find Steering Data"), None)
       ELSE Return("GetSteeringData", <<aJoinerType>>, NoError,
                   mCommDataset.val[SteeringField(aJoinerType)])

GetJoinerUdpPort(aJoinerType) ==
    /\ CanCall
    /\ NoEnable
    /\ IF ~IsActive
       THEN Return("GetJoinerUdpPort", <<aJoinerType>>, ErrNotActive, None)
       ELSE IF ~Has(mCommDataset, UdpPortField(aJoinerType))
       THEN Return("GetJoinerUdpPort", <<aJoinerType>>,
                   ERROR_NOT_FOUND("cannot find Joiner UDP Port"), None)
       ELSE Return("GetJoinerUdpPort", <<aJoinerType>>, NoError,
                   mCommDataset.val[UdpPortField(aJoinerType)])

\* the session ends without a call of the application: three keep-alive
\* timeouts, or a keep-alive reply with State=0
SessionLost ==
    /\ IsActive
    /\ mState' = "Disabled"
    /\ UNCHANGED <<mCcm, caches, mJoiners, lastEnable, lastOp, opsLeft, mrg,
                   asyncGets, reports, kaTimeouts>>

SessionNext == Start \/ Stop \/ SessionLost

JoinerOps(euis, creds) ==
    \/ \E t \in JoinerTypes, e \in euis, c \in creds :
           EnableJoiner(t, e, c.pskd, c.url)
    \/ \E t \in JoinerTypes, e \in euis : DisableJoiner(t, e)
    \/ \E t \in JoinerTypes, c \in creds : EnableAllJoiners(t, c.pskd, c.url)
    \/ \E t \in JoinerTypes : DisableAllJoiners(t)
    \/ \E t \in JoinerTypes, p \in UdpPorts : SetJoinerUdpPort(t, p)
    \/ \E d \in CallerCommDatasets : SetCommissionerDataset(d)
    \/ \E t \in JoinerTypes : GetSteeringData(t)
    \/ \E t \in JoinerTypes : GetJoinerUdpPort(t)

JoinerNext == SessionNext \/ JoinerOps(Eui64s, JoinerCreds)

JoinerSpec == Init /\ [][JoinerNext]_vars

JoinerDeepSpec == DeepInit /\ [][JoinerNext]_vars

-----------------------------------------------------------------------------
(* Session getters *)

ErrAssert == [code |-> "kAssert", msg |-> "ASSERT failed, the process aborts"]

\* a failed ASSERT: the call does not return and nothing is called after it
Abort(name, args) ==
    /\ lastOp' = [op |-> name, args |-> args, error |-> ErrAssert, reqs |-> <<>>,
                  ret |-> None, active |-> IsActive, pre |-> lastEnable]
    /\ opsLeft' = 0
    /\ UNCHANGED <<mCcm, mrg, asyncGets, reports, kaTimeouts, mState, caches,
                   mJoiners>>

\* the session IDs mCommissioner may hold
LibSessionIds == RemoteValues

GetSessionId ==
    /\ CanCall
    /\ NoEnable
    /\ IF ~IsActive
       THEN Return("GetSessionId", <<>>, ErrNotActive, None)
       ELSE \E sid \in LibSessionIds : Return("GetSessionId", <<>>, NoError, sid)

GetBorderAgentLocator ==
    /\ CanCall
    /\ NoEnable
    /\ IF ~IsActive
       THEN Return("GetBorderAgentLocator", <<>>, ErrNotActive, None)
       ELSE IF ~Has(mCommDataset, "BorderAgentLocator")
       THEN Abort("GetBorderAgentLocator", <<>>)
       ELSE Return("GetBorderAgentLocator", <<>>, NoError,
                   mCommDataset.val["BorderAgentLocator"])

-----------------------------------------------------------------------------
(* Typed getters and setters of the Active, Pending and BBR datasets *)

\* a getter that reads mActiveDataset, NotFound when the field is absent
ActiveGetCached(name, fld) ==
    /\ CanCall
    /\ NoEnable
    /\ IF ~IsActive
       THEN Return(name, <<>>, ErrNotActive, None)
       ELSE IF ~Has(mActiveDataset, fld)
       THEN Return(name, <<>>, ERROR_NOT_FOUND("cannot find the field"), None)
       ELSE Return(name, <<>>, NoError, mActiveDataset.val[fld])

\* a getter that first pulls the Active dataset into mActiveDataset;
\* asserts tells whether an absent field is an ASSERT or a NotFound
ActiveGetPulled(name, fld, asserts) ==
    /\ CanCall
    /\ NoEnable
    /\ IF ~IsActive
       THEN Return(name, <<>>, ErrNotActive, None)
       ELSE \/ /\ Done(name, <<>>, ErrTimeout, <<GetReq("MGMT_ACTIVE_GET")>>, None)
               /\ UNCHANGED <<mState, caches, mJoiners>>
            \/ \E a \in RemoteActiveDatasets :
                 /\ mActiveDataset' = a
                 /\ UNCHANGED <<mState, mCommDataset, mPendingDataset,
                                mBbrDataset, mJoiners>>
                 /\ IF Has(a, fld)
                    THEN Done(name, <<>>, NoError, <<GetReq("MGMT_ACTIVE_GET")>>,
                              a.val[fld])
                    ELSE IF asserts
                    THEN /\ lastOp' = [op |-> name, args |-> <<>>,
                                       error |-> ErrAssert,
                                       reqs |-> <<GetReq("MGMT_ACTIVE_GET")>>,
                                       ret |-> None, active |-> IsActive,
                                       pre |-> lastEnable]
                         /\ opsLeft' = 0
                         /\ UNCHANGED <<mCcm, mrg, asyncGets, reports, kaTimeouts>>
                    ELSE Done(name, <<>>, ERROR_NOT_FOUND("cannot find the field"),
                              <<GetReq("MGMT_ACTIVE_GET")>>, None)

\* a setter that sends one Active field and merges it on success
ActiveSetTyped(name, fld, v) ==
    LET activeDataset == SetField(EmptyDataset(ActiveFields), fld, v)
    IN  /\ CanCall
        /\ NoEnable
        /\ IF ~IsActive
           THEN Return(name, <<v>>, ErrNotActive, None)
           ELSE \E r \in LibResults :
                  /\ Done(name, <<v>>, r, <<Req("MGMT_ACTIVE_SET", activeDataset)>>,
                          None)
                  /\ mActiveDataset' =
                       IF r = NoError
                       THEN MergeActiveDataset(mActiveDataset, activeDataset)
                       ELSE mActiveDataset
                  /\ UNCHANGED <<mState, mCommDataset, mPendingDataset,
                                 mBbrDataset, mJoiners>>

PendingSetTypedMutant(name, fld, v, aDelay) ==
    LET pendingDataset ==
            SetField(SetField(EmptyDataset(PendingFields), fld, v),
                     "DelayTimer", aDelay)
    IN  /\ CanCall
        /\ NoEnable
        /\ IF ~IsActive
           THEN Return(name, <<v, aDelay>>, ErrNotActive, None)
           ELSE \E r \in LibResults :
                  /\ Done(name, <<v, aDelay>>, r,
                          <<Req("MGMT_PENDING_SET", pendingDataset)>>, None)
                  /\ mPendingDataset' =
                       IF r = NoError THEN pendingDataset ELSE mPendingDataset
                  /\ UNCHANGED <<mState, mCommDataset, mActiveDataset,
                                 mBbrDataset, mJoiners>>

\* a setter that sends one field and the delay timer in the Pending dataset
PendingSetTyped(name, fld, v, aDelay) ==
    LET pendingDataset ==
            SetField(SetField(EmptyDataset(PendingFields), fld, v),
                     "DelayTimer", aDelay)
    IN  /\ CanCall
        /\ NoEnable
        /\ IF ~IsActive
           THEN Return(name, <<v, aDelay>>, ErrNotActive, None)
           ELSE \E r \in LibResults :
                  /\ Done(name, <<v, aDelay>>, r,
                          <<Req("MGMT_PENDING_SET", pendingDataset)>>, None)
                  /\ mPendingDataset' =
                       IF r = NoError
                       THEN MergePendingDataset(mPendingDataset, pendingDataset)
                       ELSE mPendingDataset
                  /\ UNCHANGED <<mState, mCommDataset, mActiveDataset,
                                 mBbrDataset, mJoiners>>

BbrGetCachedMutant(name, fld) ==
    /\ CanCall
    /\ NoEnable
    /\ IF ~IsCcmMode
       THEN Return(name, <<>>, ErrNotCcm, None)
       ELSE IF ~IsActive
       THEN Return(name, <<>>, ErrNotActive, None)
       ELSE IF ~Has(mBbrDataset, fld)
       THEN Return(name, <<>>, ERROR_NOT_FOUND("cannot find the field"), None)
       ELSE Return(name, <<>>, NoError, mBbrDataset.val[fld])

\* a getter of the BBR dataset: active, then CCM mode, then the field
BbrGetCached(name, fld) ==
    /\ CanCall
    /\ NoEnable
    /\ IF ~IsActive
       THEN Return(name, <<>>, ErrNotActive, None)
       ELSE IF ~IsCcmMode
       THEN Return(name, <<>>, ErrNotCcm, None)
       ELSE IF ~Has(mBbrDataset, fld)
       THEN Return(name, <<>>, ERROR_NOT_FOUND("cannot find the field"), None)
       ELSE Return(name, <<>>, NoError, mBbrDataset.val[fld])

\* a setter of one BBR field
BbrSetTyped(name, fld, v) ==
    LET bbrDataset == SetField(EmptyDataset(BbrFields), fld, v)
    IN  /\ CanCall
        /\ NoEnable
        /\ IF ~IsActive
           THEN Return(name, <<v>>, ErrNotActive, None)
           ELSE IF ~IsCcmMode
           THEN Return(name, <<v>>, ErrNotCcm, None)
           ELSE \E r \in LibResults :
                  /\ Done(name, <<v>>, r, <<Req("MGMT_BBR_SET", bbrDataset)>>, None)
                  /\ mBbrDataset' =
                       IF r = NoError
                       THEN MergeBbrDataset(mBbrDataset, bbrDataset)
                       ELSE mBbrDataset
                  /\ UNCHANGED <<mState, mCommDataset, mActiveDataset,
                                 mPendingDataset, mJoiners>>

GetActiveTimestamp ==
    /\ CanCall
    /\ NoEnable
    /\ IF ~IsActive
       THEN Return("GetActiveTimestamp", <<>>, ErrNotActive, None)
       ELSE IF ~Has(mActiveDataset, "ActiveTimestamp")
       THEN Abort("GetActiveTimestamp", <<>>)
       ELSE Return("GetActiveTimestamp", <<>>, NoError,
                   mActiveDataset.val["ActiveTimestamp"])

GetChannel == ActiveGetPulled("GetChannel", "Channel", TRUE)

SetChannel(aChannel, aDelay) ==
    PendingSetTyped("SetChannel", "Channel", aChannel, aDelay)

GetChannelMask == ActiveGetCached("GetChannelMask", "ChannelMask")

SetChannelMask(aChannelMask) ==
    ActiveSetTyped("SetChannelMask", "ChannelMask", aChannelMask)

GetExtendedPanId == ActiveGetCached("GetExtendedPanId", "ExtendedPanId")

SetExtendedPanId(aExtendedPanId) ==
    ActiveSetTyped("SetExtendedPanId", "ExtendedPanId", aExtendedPanId)

GetMeshLocalPrefix == ActiveGetPulled("GetMeshLocalPrefix", "MeshLocalPrefix", FALSE)

\* prefixes a caller may pass; Ipv6PrefixFromString refuses the negative one
Prefixes == CallerValues \cup {-1}

ERROR_INVALID_ARGS(m) == [code |-> "kInvalidArgs", msg |-> m]

SetMeshLocalPrefix(aPrefix, aDelay) ==
    IF IsActive /\ aPrefix < 0
    THEN /\ CanCall
         /\ NoEnable
         /\ Return("SetMeshLocalPrefix", <<aPrefix, aDelay>>,
                   ERROR_INVALID_ARGS("bad prefix"), None)
    ELSE PendingSetTyped("SetMeshLocalPrefix", "MeshLocalPrefix", aPrefix, aDelay)

GetNetworkMasterKey ==
    ActiveGetPulled("GetNetworkMasterKey", "NetworkMasterKey", FALSE)

SetNetworkMasterKey(aMasterKey, aDelay) ==
    PendingSetTyped("SetNetworkMasterKey", "NetworkMasterKey", aMasterKey, aDelay)

GetNetworkName == ActiveGetCached("GetNetworkName", "NetworkName")

SetNetworkName(aNetworkName) ==
    ActiveSetTyped("SetNetworkName", "NetworkName", aNetworkName)

GetPanId == ActiveGetPulled("GetPanId", "PanId", FALSE)

SetPanId(aPanId, aDelay) == PendingSetTyped("SetPanId", "PanId", aPanId, aDelay)

GetPSKc == ActiveGetCached("GetPSKc", "PSKc")

SetPSKc(aPSKc) == ActiveSetTyped("SetPSKc", "PSKc", aPSKc)

GetSecurityPolicy == ActiveGetCached("GetSecurityPolicy", "SecurityPolicy")

SetSecurityPolicy(aSecurityPolicy) ==
    ActiveSetTyped("SetSecurityPolicy", "SecurityPolicy", aSecurityPolicy)

GetTriHostname == BbrGetCached("GetTriHostname", "TriHostname")

SetTriHostname(aHostname) == BbrSetTyped("SetTriHostname", "TriHostname", aHostname)

GetRegistrarHostname == BbrGetCached("GetRegistrarHostname", "RegistrarHostname")

SetRegistrarHostname(aHostname) ==
    BbrSetTyped("SetRegistrarHostname", "RegistrarHostname", aHostname)

GetRegistrarIpv6Addr == BbrGetCached("GetRegistrarIpv6Addr", "RegistrarIpv6Addr")

-----------------------------------------------------------------------------
(* Raw dataset setters *)

CallerActiveDatasets ==
    {SetField(EmptyDataset(ActiveFields), "NetworkName", v) : v \in CallerValues}

CallerPendingDatasets ==
    {SetField(SetField(EmptyDataset(PendingFields), "PanId", v), "DelayTimer", d) :
        v \in CallerValues, d \in Delays}

CallerBbrDatasets ==
    {SetField(EmptyDataset(BbrFields), "RegistrarHostname", v) : v \in CallerValues}

SetActiveDataset(aDataset) ==
    /\ CanCall
    /\ NoEnable
    /\ \E r \in LibResults :
         /\ Done("SetActiveDataset", <<aDataset>>, r,
                 <<Req("MGMT_ACTIVE_SET", aDataset)>>, None)
         /\ mActiveDataset' =
              IF r = NoError THEN MergeActiveDataset(mActiveDataset, aDataset)
              ELSE mActiveDataset
         /\ UNCHANGED <<mState, mCommDataset, mPendingDataset, mBbrDataset,
                        mJoiners>>

SetPendingDataset(aDataset) ==
    /\ CanCall
    /\ NoEnable
    /\ \E r \in LibResults :
         /\ Done("SetPendingDataset", <<aDataset>>, r,
                 <<Req("MGMT_PENDING_SET", aDataset)>>, None)
         /\ mPendingDataset' =
              IF r = NoError THEN MergePendingDataset(mPendingDataset, aDataset)
              ELSE mPendingDataset
         /\ UNCHANGED <<mState, mCommDataset, mActiveDataset, mBbrDataset,
                        mJoiners>>

SetBbrDataset(aDataset) ==
    /\ CanCall
    /\ NoEnable
    /\ \E r \in LibResults :
         /\ Done("SetBbrDataset", <<aDataset>>, r,
                 <<Req("MGMT_BBR_SET", aDataset)>>, None)
         /\ mBbrDataset' =
              IF r = NoError THEN MergeBbrDataset(mBbrDataset, aDataset)
              ELSE mBbrDataset
         /\ UNCHANGED <<mState, mCommDataset, mActiveDataset, mPendingDataset,
                        mJoiners>>

-----------------------------------------------------------------------------
(* Commands *)

\* a command that is one request on mCommissioner
Command(name, uri, args) ==
    \E r \in LibResults :
        /\ Done(name, args, r, <<Req(uri, args)>>, None)
        /\ UNCHANGED <<mState, caches, mJoiners>>

CcmCommandMutant(name, uri, args) ==
    /\ CanCall
    /\ NoEnable
    /\ IF ~IsActive
       THEN Return(name, args, ErrNotActive, None)
       ELSE Command(name, uri, args)

CcmCommand(name, uri, args) ==
    /\ CanCall
    /\ NoEnable
    /\ IF ~IsActive
       THEN Return(name, args, ErrNotActive, None)
       ELSE IF ~IsCcmMode
       THEN Return(name, args, ErrNotCcm, None)
       ELSE Command(name, uri, args)

DstAddrs == {"ff03::1"}

Reenroll(aDstAddr) == CcmCommand("Reenroll", "MGMT_REENROLL", <<aDstAddr>>)

DomainReset(aDstAddr) == CcmCommand("DomainReset", "MGMT_DOMAIN_RESET", <<aDstAddr>>)

Migrate(aDstAddr, aDesignatedNetwork) ==
    CcmCommand("Migrate", "MGMT_NET_MIGRATE", <<aDstAddr, aDesignatedNetwork>>)

kMlrStatusSuccess == 0

MlrStatuses == {0, 1}

RegisterMulticastListenerMutant(aMulticastAddrList) ==
    LET args == <<aMulticastAddrList>>
        get == <<GetReq("MGMT_ACTIVE_GET")>>
    IN  /\ CanCall
        /\ NoEnable
        /\ IF ~IsActive
           THEN Return("RegisterMulticastListener", args, ErrNotActive, None)
           ELSE \* GetPrimaryBbrAddr: GetMeshLocalPrefix pulls the Active dataset
                \/ /\ Done("RegisterMulticastListener", args, ErrTimeout, get, None)
                   /\ UNCHANGED <<mState, caches, mJoiners>>
                \/ \E a \in RemoteActiveDatasets :
                     /\ mActiveDataset' = a
                     /\ UNCHANGED <<mState, mCommDataset, mPendingDataset,
                                    mBbrDataset, mJoiners>>
                     /\ IF ~Has(a, "MeshLocalPrefix")
                        THEN Done("RegisterMulticastListener", args,
                                  ERROR_NOT_FOUND("cannot find the field"), get, None)
                        ELSE \/ Done("RegisterMulticastListener", args, ErrTimeout,
                                     get \o <<Req("MLR", args)>>, None)
                             \/ \E status \in MlrStatuses :
                                  Done("RegisterMulticastListener", args,
                                       NoError,
                                       get \o <<Req("MLR", args)>>, status)

RegisterMulticastListener(aMulticastAddrList) ==
    LET args == <<aMulticastAddrList>>
        get == <<GetReq("MGMT_ACTIVE_GET")>>
    IN  /\ CanCall
        /\ NoEnable
        /\ IF ~IsActive
           THEN Return("RegisterMulticastListener", args, ErrNotActive, None)
           ELSE \* GetPrimaryBbrAddr: GetMeshLocalPrefix pulls the Active dataset
                \/ /\ Done("RegisterMulticastListener", args, ErrTimeout, get, None)
                   /\ UNCHANGED <<mState, caches, mJoiners>>
                \/ \E a \in RemoteActiveDatasets :
                     /\ mActiveDataset' = a
                     /\ UNCHANGED <<mState, mCommDataset, mPendingDataset,
                                    mBbrDataset, mJoiners>>
                     /\ IF ~Has(a, "MeshLocalPrefix")
                        THEN Done("RegisterMulticastListener", args,
                                  ERROR_NOT_FOUND("cannot find the field"), get, None)
                        ELSE \/ Done("RegisterMulticastListener", args, ErrTimeout,
                                     get \o <<Req("MLR", args)>>, None)
                             \/ \E status \in MlrStatuses :
                                  Done("RegisterMulticastListener", args,
                                       IF status = kMlrStatusSuccess THEN NoError
                                       ELSE ERROR_REJECTED("request was rejected"),
                                       get \o <<Req("MLR", args)>>, status)

PlainCommand(name, uri, args) ==
    /\ CanCall
    /\ NoEnable
    /\ IF ~IsActive
       THEN Return(name, args, ErrNotActive, None)
       ELSE Command(name, uri, args)

AnnounceBegin(aChannelMask, aCount, aPeriod, aDstAddr) ==
    PlainCommand("AnnounceBegin", "MGMT_ANNOUNCE_BEGIN",
                 <<aChannelMask, aCount, aPeriod, aDstAddr>>)

PanIdQuery(aChannelMask, aPanId, aDstAddr) ==
    PlainCommand("PanIdQuery", "MGMT_PANID_QUERY", <<aChannelMask, aPanId, aDstAddr>>)

EnergyScan(aChannelMask, aCount, aPeriod, aScanDuration, aDstAddr) ==
    PlainCommand("EnergyScan", "MGMT_ED_SCAN",
                 <<aChannelMask, aCount, aPeriod, aScanDuration, aDstAddr>>)

-----------------------------------------------------------------------------
(* The application *)

DatasetNext ==
    \/ GetSessionId
    \/ GetBorderAgentLocator
    \/ GetActiveTimestamp
    \/ GetChannel
    \/ \E v \in CallerValues, d \in Delays : SetChannel(v, d)
    \/ GetChannelMask
    \/ \E v \in CallerValues : SetChannelMask(v)
    \/ GetExtendedPanId
    \/ \E v \in CallerValues : SetExtendedPanId(v)
    \/ GetMeshLocalPrefix
    \/ \E x \in Prefixes, d \in Delays : SetMeshLocalPrefix(x, d)
    \/ GetNetworkMasterKey
    \/ \E v \in CallerValues, d \in Delays : SetNetworkMasterKey(v, d)
    \/ GetNetworkName
    \/ \E v \in CallerValues : SetNetworkName(v)
    \/ GetPanId
    \/ \E v \in CallerValues, d \in Delays : SetPanId(v, d)
    \/ GetPSKc
    \/ \E v \in CallerValues : SetPSKc(v)
    \/ GetSecurityPolicy
    \/ \E v \in CallerValues : SetSecurityPolicy(v)
    \/ GetTriHostname
    \/ \E v \in CallerValues : SetTriHostname(v)
    \/ GetRegistrarHostname
    \/ \E v \in CallerValues : SetRegistrarHostname(v)
    \/ GetRegistrarIpv6Addr
    \/ \E d \in CallerActiveDatasets : SetActiveDataset(d)
    \/ \E d \in CallerPendingDatasets : SetPendingDataset(d)
    \/ \E d \in CallerBbrDatasets : SetBbrDataset(d)

CommandNext ==
    \/ \E a \in DstAddrs : Reenroll(a)
    \/ \E a \in DstAddrs : DomainReset(a)
    \/ \E a \in DstAddrs : Migrate(a, "net")
    \/ RegisterMulticastListener(<<"ff04::1">>)
    \/ \E a \in DstAddrs : AnnounceBegin(1, 1, 1, a)
    \/ \E v \in CallerValues, a \in DstAddrs : PanIdQuery(1, v, a)
    \/ \E a \in DstAddrs : EnergyScan(1, 1, 1, 1, a)

\* the whole application, with one EUI-64 and one PSKd for the joiner calls
Next ==
    \/ SessionNext
    \/ JoinerOps({1}, {[pskd |-> "J01NME", url |-> ""]})
    \/ DatasetNext
    \/ CommandNext

Spec == Init /\ [][Next]_vars

-----------------------------------------------------------------------------
(* Pulling and getting the network data *)

NetworkValues == RemoteValues \cup {6}

\* answers to MGMT_COMMISSIONER_GET, one of them without the fields the
\* Leader owns
AnyCommDatasets ==
    {Restrict(FullDataset(CommFields, v), keep) :
        v \in NetworkValues,
        keep \in {{"BorderAgentLocator", "SessionId"},
                  {"BorderAgentLocator", "SessionId", "SteeringData", "JoinerUdpPort"},
                  {"SteeringData"}}}

AnyActiveDatasets ==
    {Restrict(FullDataset(ActiveFields, v), keep) :
        v \in RemoteValues, keep \in {ActiveFields, {"Channel"}}}

AnyPendingDatasets ==
    {Restrict(FullDataset(PendingFields, v), keep) :
        v \in RemoteValues, keep \in {{}, {"PanId", "DelayTimer"}}}

AnyBbrDatasets ==
    {Restrict(FullDataset(BbrFields, v), keep) :
        v \in RemoteValues, keep \in {{"TriHostname"}, {"RegistrarHostname"}}}

StartAnyNetwork ==
    StartWith(AnyCommDatasets, AnyActiveDatasets, AnyPendingDatasets, AnyBbrDatasets)

\* GetCommissionerDataset: the answer goes to the caller, nothing is merged
GetCommissionerDataset(aDatasetFlags) ==
    /\ CanCall
    /\ NoEnable
    /\ UNCHANGED <<mState, caches, mJoiners>>
    /\ \/ \E r \in LibResults \ {NoError} :
            Done("GetCommissionerDataset", <<aDatasetFlags>>, r,
                 <<Req("MGMT_COMMISSIONER_GET", aDatasetFlags)>>, None)
       \/ /\ IsActive
          /\ \E c \in AnyCommDatasets :
               Done("GetCommissionerDataset", <<aDatasetFlags>>, NoError,
                    <<Req("MGMT_COMMISSIONER_GET", aDatasetFlags)>>, c)

NetworkDataNext ==
    \/ StartAnyNetwork
    \/ Stop
    \/ SessionLost
    \/ GetCommissionerDataset(65535)
    \/ \E d \in CallerCommDatasets : SetCommissionerDataset(d)

NetworkDataSpec == Init /\ [][NetworkDataNext]_vars

-----------------------------------------------------------------------------
(* The dataset-changed notification *)

\* HandleDatasetChanged, called by mCommissioner when MGMT_DATASET_CHANGED
\* arrives: it issues two asynchronous GETs and returns
HandleDatasetChanged ==
    /\ IsActive
    /\ asyncGets = {}
    /\ asyncGets' = {"Active", "Pending"}
    /\ UNCHANGED <<mState, mCcm, caches, mJoiners, lastEnable, lastOp, opsLeft, mrg,
                   reports, kaTimeouts>>

\* the callback of the asynchronous GetActiveDataset, run by mCommissioner
\* when the answer or the failure arrives
ActiveGetCallback ==
    /\ "Active" \in asyncGets
    /\ asyncGets' = asyncGets \ {"Active"}
    /\ \/ \E aDataset \in AnyActiveDatasets : mActiveDataset' = aDataset
       \/ UNCHANGED mActiveDataset
    /\ UNCHANGED <<mState, mCcm, mCommDataset, mPendingDataset, mBbrDataset,
                   mJoiners, lastEnable, lastOp, opsLeft, mrg, reports, kaTimeouts>>

\* the callback of the asynchronous GetPendingDataset
PendingGetCallback ==
    /\ "Pending" \in asyncGets
    /\ asyncGets' = asyncGets \ {"Pending"}
    /\ \/ \E aDataset \in AnyPendingDatasets : mPendingDataset' = aDataset
       \/ UNCHANGED mPendingDataset
    /\ UNCHANGED <<mState, mCcm, mCommDataset, mActiveDataset, mBbrDataset,
                   mJoiners, lastEnable, lastOp, opsLeft, mrg, reports, kaTimeouts>>

NotifyNext ==
    \/ Start
    \/ HandleDatasetChanged
    \/ ActiveGetCallback
    \/ PendingGetCallback
    \/ \E v \in CallerValues : SetChannelMask(v)
    \/ GetChannelMask
    \/ GetChannel
    \/ \E v \in CallerValues, d \in Delays : SetPanId(v, d)

NotifySpec == Init /\ [][NotifyNext]_vars

-----------------------------------------------------------------------------
(* Joiner admission *)

Wildcard(aType) == JoinerKey(aType, ComputeJoinerId(0))

EntryAt(key) == CHOOSE kv \in mJoiners : kv.key = key

GetJoinerInfoMutant(aType, aJoinerId) ==
    IF Count(mJoiners, Wildcard(aType)) # 0
    THEN EntryAt(Wildcard(aType)).info
    ELSE IF Count(mJoiners, JoinerKey(aType, aJoinerId)) # 0
    THEN EntryAt(JoinerKey(aType, aJoinerId)).info
    ELSE None

\* GetJoinerInfo, the JoinerInfoRequester handed to mCommissioner: the entry,
\* or None for nullptr
GetJoinerInfo(aType, aJoinerId) ==
    IF Count(mJoiners, JoinerKey(aType, aJoinerId)) # 0
    THEN EntryAt(JoinerKey(aType, aJoinerId)).info
    ELSE IF Count(mJoiners, Wildcard(aType)) # 0
    THEN EntryAt(Wildcard(aType)).info
    ELSE None

IsJoinerCommissionedMutant(aType, aEui64) ==
    LET key == JoinerKey(aType, ComputeJoinerId(aEui64))
    IN  IF Count(mJoiners, key) = 0 THEN TRUE
        ELSE EntryAt(key).info.mIsCommissioned

IsJoinerCommissioned(aType, aEui64) ==
    LET key == JoinerKey(aType, ComputeJoinerId(aEui64))
    IN  IF Count(mJoiners, key) = 0 THEN FALSE
        ELSE EntryAt(key).info.mIsCommissioned

\* the API call, recorded with what it returned
CallIsJoinerCommissioned(aType, aEui64) ==
    /\ CanCall
    /\ NoEnable
    /\ Return("IsJoinerCommissioned", <<aType, aEui64>>, NoError,
              IsJoinerCommissioned(aType, aEui64))

DefaultCommissioningHandler(aJoinerInfo) == TRUE

\* a joiner with this EUI-64 runs the joining flow: mCommissioner asks
\* GetJoinerInfo for its joiner ID and, for an entry, takes JOIN_FIN to the
\* commissioning handler.  The entry is handed out as a pointer to const and
\* nothing in CommissionerApp writes mIsCommissioned.
JoinerJoins(aType, aEui64) ==
    LET joinerInfo == GetJoinerInfo(aType, ComputeJoinerId(aEui64))
        accepted == joinerInfo # None /\ DefaultCommissioningHandler(joinerInfo)
    IN  /\ IsActive
        /\ lastOp' = [op |-> "JoinerJoins", args |-> <<aType, aEui64>>,
                      error |-> IF accepted THEN NoError
                                ELSE ERROR_REJECTED("joiner is not enabled"),
                      reqs |-> <<>>, ret |-> joinerInfo, active |-> IsActive,
                      pre |-> lastEnable]
        /\ NoEnable
        /\ UNCHANGED <<mState, mCcm, caches, mJoiners, opsLeft, mrg, asyncGets,
                       reports, kaTimeouts>>

AdmissionEuis == Eui64s \ {0}

\* the joiner types the admission runs go through: the CCM type and one other
AdmissionTypes == {"kMeshCoP", "kAE"}

AdmissionNext ==
    \/ Start
    \/ \E t \in AdmissionTypes, e \in AdmissionEuis :
           EnableJoiner(t, e, "J01NME", "")
    \/ \E t \in AdmissionTypes, e \in AdmissionEuis : DisableJoiner(t, e)
    \/ \E t \in AdmissionTypes : EnableAllJoiners(t, "PSKD02", "")
    \/ \E t \in AdmissionTypes : DisableAllJoiners(t)
    \/ \E t \in AdmissionTypes, e \in AdmissionEuis : JoinerJoins(t, e)
    \/ \E t \in AdmissionTypes, e \in AdmissionEuis : CallIsJoinerCommissioned(t, e)

AdmissionSpec == Init /\ [][AdmissionNext]_vars

-----------------------------------------------------------------------------
(* PAN ID queries and energy scans *)

PanIds == {1, 2}

ChannelMasks == {1, 2}

PeerAddrs == {"fd00::1", "fd00::2"}

EnergyLists == {<<10>>, <<20>>}

\* std::map::operator[] followed by an assignment
Assign(m, key, value) ==
    [k \in DOMAIN m \cup {key} |-> IF k = key THEN value ELSE m[k]]

HasPanIdConflict(aPanId) == aPanId \in DOMAIN mPanIdConflicts

\* GetEnergyReport, None for nullptr
GetEnergyReport(aDstAddr) ==
    IF aDstAddr \notin DOMAIN mEnergyReports THEN None
    ELSE mEnergyReports[aDstAddr]

CallHasPanIdConflict(aPanId) ==
    /\ CanCall
    /\ NoEnable
    /\ Return("HasPanIdConflict", <<aPanId>>, NoError, HasPanIdConflict(aPanId))

\* a notification handler run by mCommissioner, recorded like a call but not
\* counted as one
Notified(name, args, err) ==
    /\ lastOp' = [op |-> name, args |-> args, error |-> err, reqs |-> <<>>,
                  ret |-> None, active |-> IsActive, pre |-> lastEnable]
    /\ UNCHANGED <<mState, mCcm, caches, mJoiners, lastEnable, opsLeft, mrg,
                   asyncGets, kaTimeouts>>

\* answers to a query arrive after the query was sent and while the caller
\* waits for them
Awaiting(query, handler) ==
    \/ lastOp.op = query /\ lastOp.error = NoError
    \/ lastOp.op = handler

HandlePanIdConflictMutant(aPeerAddr, aChannelMask, aPanId, aError) ==
    /\ Awaiting("PanIdQuery", "HandlePanIdConflict")
    /\ Notified("HandlePanIdConflict", <<aPeerAddr, aChannelMask, aPanId, aError>>,
                aError)
    /\ IF aError # NoError \/ aPanId \in DOMAIN mPanIdConflicts
       THEN UNCHANGED reports
       ELSE /\ mPanIdConflicts' = Assign(mPanIdConflicts, aPanId, aChannelMask)
            /\ UNCHANGED mEnergyReports

HandlePanIdConflict(aPeerAddr, aChannelMask, aPanId, aError) ==
    /\ Awaiting("PanIdQuery", "HandlePanIdConflict")
    /\ Notified("HandlePanIdConflict", <<aPeerAddr, aChannelMask, aPanId, aError>>,
                aError)
    /\ IF aError # NoError
       THEN UNCHANGED reports
       ELSE /\ mPanIdConflicts' = Assign(mPanIdConflicts, aPanId, aChannelMask)
            /\ UNCHANGED mEnergyReports

HandleEnergyReport(aPeerAddr, aChannelMask, aEnergyList, aError) ==
    /\ Awaiting("EnergyScan", "HandleEnergyReport")
    /\ Notified("HandleEnergyReport",
                <<aPeerAddr, aChannelMask, aEnergyList, aError>>, aError)
    /\ IF aError # NoError
       THEN UNCHANGED reports
       ELSE /\ mEnergyReports' =
                  Assign(mEnergyReports, aPeerAddr,
                         [mChannelMask |-> aChannelMask, mEnergyList |-> aEnergyList])
            /\ UNCHANGED mPanIdConflicts

QueryNext ==
    \/ Start
    \/ \E p \in PanIds, a \in DstAddrs : PanIdQuery(1, p, a)
    \/ \E a \in DstAddrs : EnergyScan(1, 1, 1, 1, a)
    \/ \E a \in PeerAddrs, m \in ChannelMasks, p \in PanIds,
          e \in {NoError, ErrTimeout} : HandlePanIdConflict(a, m, p, e)
    \/ \E a \in PeerAddrs, l \in EnergyLists, e \in {NoError, ErrTimeout} :
          HandleEnergyReport(a, 1, l, e)
    \/ \E p \in PanIds : CallHasPanIdConflict(p)

QuerySpec == Init /\ [][QueryNext]_vars

-----------------------------------------------------------------------------
(* The session: keep-alive, AbortRequests *)

kMaxKeepAliveTimeouts == 3

AbortRequestsMutant ==
    /\ CanCall
    /\ NoEnable
    /\ mState' = "Disabled"
    /\ UNCHANGED <<caches, mJoiners>>
    /\ Done("AbortRequests", <<>>, NoError, <<>>, None)

\* AbortRequests: mCommissioner cancels what is outstanding, the session stays
AbortRequests ==
    /\ CanCall
    /\ NoEnable
    /\ Return("AbortRequests", <<>>, NoError, None)

\* answers to MGMT_COMMISSIONER_GET of a Leader that reports the session
SessionCommDatasets ==
    {c \in AnyCommDatasets :
        {"BorderAgentLocator", "SessionId"} \subseteq c.mPresentFlags}

StartSession ==
    StartWith(SessionCommDatasets, RemoteActiveDatasets, RemotePendingDatasets,
              RemoteBbrDatasets)

\* the session ends: the callbacks of the outstanding requests run with
\* Timeout, which writes nothing
LoseSession ==
    /\ mState' = "Disabled"
    /\ asyncGets' = {}

KeepAliveTimeoutMutant ==
    /\ IsActive
    /\ kaTimeouts' = kaTimeouts + 1
    /\ IF kaTimeouts' >= kMaxKeepAliveTimeouts - 1
       THEN LoseSession
       ELSE UNCHANGED <<mState, asyncGets>>
    /\ UNCHANGED <<mCcm, caches, mJoiners, lastEnable, lastOp, opsLeft, mrg,
                   reports>>

\* a keep-alive is not answered in time
KeepAliveTimeout ==
    /\ IsActive
    /\ kaTimeouts' = kaTimeouts + 1
    /\ IF kaTimeouts' >= kMaxKeepAliveTimeouts
       THEN LoseSession
       ELSE UNCHANGED <<mState, asyncGets>>
    /\ UNCHANGED <<mCcm, caches, mJoiners, lastEnable, lastOp, opsLeft, mrg,
                   reports>>

\* a keep-alive is answered with State=Accept
KeepAliveAccepted ==
    /\ IsActive
    /\ kaTimeouts' = 0
    /\ UNCHANGED <<mState, mCcm, caches, mJoiners, lastEnable, lastOp, opsLeft,
                   mrg, asyncGets, reports>>

\* a keep-alive is answered with State=0
KeepAliveRejected ==
    /\ IsActive
    /\ LoseSession
    /\ UNCHANGED <<mCcm, caches, mJoiners, lastEnable, lastOp, opsLeft, mrg,
                   reports, kaTimeouts>>

KeepAliveNext ==
    \/ StartSession
    \/ Stop
    \/ AbortRequests
    \/ GetSessionId
    \/ GetBorderAgentLocator
    \/ \E e \in AdmissionEuis : EnableJoiner("kMeshCoP", e, "J01NME", "")
    \/ HandleDatasetChanged
    \/ ActiveGetCallback
    \/ PendingGetCallback
    \/ KeepAliveTimeout
    \/ KeepAliveAccepted
    \/ KeepAliveRejected

KeepAliveSpec == Init /\ [][KeepAliveNext]_vars

-----------------------------------------------------------------------------
(* MergeDataset on its own *)

\* presence bitmaps with at most MaxPresent fields set or at most MaxPresent
\* fields clear
PresenceSets(fields) ==
    {S \in SUBSET fields :
        Cardinality(S) <= MaxPresent \/ Cardinality(fields \ S) <= MaxPresent}

DatasetsOver(fields, v) ==
    {[mPresentFlags |-> S, val |-> FullDataset(fields, v).val] :
        S \in PresenceSets(fields)}

MergeInputs(kind, fields) ==
    {[kind |-> kind, dst |-> d, src |-> x, out |-> None] :
        d \in UNION {DatasetsOver(fields, v) : v \in RemoteValues},
        x \in UNION {DatasetsOver(fields, v) : v \in CallerValues}}

\* the application is idle; the arguments of one MergeDataset call are drawn
MergeInit ==
    /\ mState = "Disabled"
    /\ mCcm \in BOOLEAN
    /\ mCommDataset = EmptyDataset(CommFields)
    /\ mActiveDataset = EmptyDataset(ActiveFields)
    /\ mPendingDataset = EmptyDataset(PendingFields)
    /\ mBbrDataset = EmptyDataset(BbrFields)
    /\ mJoiners = {}
    /\ lastEnable = None
    /\ lastOp = None
    /\ opsLeft = 0
    /\ asyncGets = {}
    /\ mPanIdConflicts = <<>>
    /\ mEnergyReports = <<>>
    /\ kaTimeouts = 0
    /\ mrg \in MergeInputs("Active", ActiveFields)
               \cup MergeInputs("Pending", PendingFields)
               \cup MergeInputs("Bbr", BbrFields)
               \cup MergeInputs("Commissioner", CommFields)

MergeStep(kind, out) ==
    /\ mrg.kind = kind
    /\ mrg.out = None
    /\ mrg' = [mrg EXCEPT !.out = out]
    /\ UNCHANGED <<mState, mCcm, caches, mJoiners, lastEnable, lastOp, opsLeft,
                   asyncGets, reports, kaTimeouts>>

MergeActiveCall == MergeStep("Active", MergeActiveDataset(mrg.dst, mrg.src))

MergePendingCall == MergeStep("Pending", MergePendingDataset(mrg.dst, mrg.src))

MergeBbrCall == MergeStep("Bbr", MergeBbrDataset(mrg.dst, mrg.src))

MergeCommCall == MergeStep("Commissioner", MergeCommDataset(mrg.dst, mrg.src))

MergeNext == MergeActiveCall \/ MergePendingCall \/ MergeBbrCall \/ MergeCommCall

MergeSpec == MergeInit /\ [][MergeNext]_vars

-----------------------------------------------------------------------------
(* ComputeJoinerId on its own *)

\* EUI-64s that differ in one, two and three of their low bytes
Eui64Inputs ==
    (0 .. MaxEui) \cup {e * 257 : e \in 0 .. MaxEui}
                  \cup {e * 65793 : e \in 0 .. MaxEui}

\* everything but the input of the function under test
PureInit ==
    /\ mState = "Disabled"
    /\ mCcm = FALSE
    /\ mCommDataset = EmptyDataset(CommFields)
    /\ mActiveDataset = EmptyDataset(ActiveFields)
    /\ mPendingDataset = EmptyDataset(PendingFields)
    /\ mBbrDataset = EmptyDataset(BbrFields)
    /\ mJoiners = {}
    /\ lastEnable = None
    /\ lastOp = None
    /\ opsLeft = 0
    /\ asyncGets = {}
    /\ mPanIdConflicts = <<>>
    /\ mEnergyReports = <<>>
    /\ kaTimeouts = 0

JoinerIdInit ==
    /\ PureInit
    /\ mrg \in {[kind |-> "JoinerId", aEui64 |-> e, out |-> None] :
                   e \in Eui64Inputs}

ComputeJoinerIdCall == MergeStep("JoinerId", ComputeJoinerId(mrg.aEui64))

JoinerIdSpec == JoinerIdInit /\ [][ComputeJoinerIdCall]_vars

-----------------------------------------------------------------------------
(* Properties of the joiner operations *)

IsCall(name) == lastOp.op = name

Succeeded(name) == lastOp.op = name /\ lastOp.error = NoError

CommSetRequests ==
    {lastOp.reqs[i] : i \in {j \in 1 .. Len(lastOp.reqs) :
                                lastOp.reqs[j].uri = "MGMT_COMMISSIONER_SET"}}

\* C2: every MGMT_COMMISSIONER_SET request CommissionerApp issues carries a
\* commissioner dataset whose SessionId and BorderAgentLocator present bits
\* are both clear.  Stated for the requests issued on an active session, the
\* ones the commissioner does not refuse.
C2_CommSetOmitsLeaderFields ==
    lastOp.active =>
        \A r \in CommSetRequests :
            r.arg.mPresentFlags \cap {"SessionId", "BorderAgentLocator"} = {}

\* C3: after a successful EnableJoiner(t, e) directly followed by a successful
\* DisableJoiner(t, e), the cached type-t steering data (present bit and
\* value) is what it was before the EnableJoiner.
C3_EnableDisableRestoresSteering ==
    (/\ Succeeded("DisableJoiner")
     /\ lastOp.pre # None
     /\ lastOp.pre.mType = lastOp.args[1]
     /\ lastOp.pre.mEui64 = lastOp.args[2])
    => LET fld == SteeringField(lastOp.args[1])
       IN  /\ Has(mCommDataset, fld) = lastOp.pre.present
           /\ mCommDataset.val[fld] = lastOp.pre.value

\* C4: a successful DisableJoiner(t, e) leaves no joiner-map entry keyed
\* (t, JoinerId(e)), whether or not other joiners are enabled.
C4_DisableErasesEntry ==
    Succeeded("DisableJoiner") =>
        Count(mJoiners,
              JoinerKey(lastOp.args[1], ComputeJoinerId(lastOp.args[2]))) = 0

\* the bloom built from {0x00} by adding each entry's own joiner ID
RECURSIVE BloomOf(_)
BloomOf(entries) ==
    IF entries = {} THEN <<0>>
    ELSE LET kv == CHOOSE e \in entries : TRUE
         IN  AddJoiner(BloomOf(entries \ {kv}), ComputeJoinerId(kv.info.mEui64))

\* C5: the steering data a successful DisableJoiner(t, e) sends and caches is
\* the bloom built from {0x00} by adding the joiner ID of every entry that
\* remains (each entry's own EUI-64), so every remaining joiner is admitted.
C5_DisableRebuildsFromRemaining ==
    Succeeded("DisableJoiner") =>
        LET t == lastOp.args[1]
            e == lastOp.args[2]
            fld == SteeringField(t)
            remaining == {kv \in mJoiners :
                             ~(kv.info.mType = t /\ kv.info.mEui64 = e)}
        IN  /\ Has(mCommDataset, fld)
            /\ mCommDataset.val[fld] = BloomOf(remaining)
            /\ lastOp.reqs[1].arg.val[fld] = BloomOf(remaining)
            /\ \A kv \in remaining :
                   kv.info.mType = t =>
                       Admits(mCommDataset.val[fld],
                              ComputeJoinerId(kv.info.mEui64))

TypeEntries(m, t) == {kv \in m : kv.key.mType = t}

\* C6: the joiner map never holds two entries with one (type, joiner ID) key;
\* right after a successful EnableAllJoiners(t, ..) the only type-t entry is
\* the wildcard keyed by JoinerId(0), and the entries of the other types are
\* the ones that were there before.
C6_OneEntryPerKey ==
    [][/\ \A a, b \in mJoiners' : a.key = b.key => a = b
       /\ (opsLeft' # opsLeft /\ lastOp'.op = "EnableAllJoiners"
             /\ lastOp'.error = NoError) =>
            LET t == lastOp'.args[1]
            IN  /\ TypeEntries(mJoiners', t) =
                     {[key |-> JoinerKey(t, ComputeJoinerId(0)),
                       info |-> JoinerInfo(t, 0, lastOp'.args[2], lastOp'.args[3])]}
                /\ mJoiners' \ TypeEntries(mJoiners', t) =
                     mJoiners \ TypeEntries(mJoiners, t)]_vars

\* C6 witness: EnableAllJoiners(t, ..) succeeded right after a joiner of
\* another type was enabled; that entry is still in the map, next to the
\* single type-t wildcard.
C6_Witness ==
    /\ Succeeded("EnableAllJoiners")
    /\ lastOp.pre # None
    /\ lastOp.pre.mType # lastOp.args[1]
    /\ \E kv \in mJoiners : kv.key.mType = lastOp.pre.mType
    /\ TypeEntries(mJoiners, lastOp.args[1]) =
         {kv \in mJoiners : kv.key = JoinerKey(lastOp.args[1], ComputeJoinerId(0))}
    /\ Cardinality(TypeEntries(mJoiners, lastOp.args[1])) = 1

\* C7: EnableJoiner(t, e, ..) on an active session that already holds an entry
\* for (t, JoinerId(e)) returns AlreadyExists, issues no request and changes
\* neither the caches nor the joiner map; without such an entry it does not
\* return AlreadyExists, whatever is enabled under the other types.
C7_DuplicateJoinerRejected ==
    [][(opsLeft' # opsLeft /\ lastOp'.op = "EnableJoiner" /\ IsActive) =>
         LET key == JoinerKey(lastOp'.args[1], ComputeJoinerId(lastOp'.args[2]))
         IN  IF Count(mJoiners, key) # 0
             THEN /\ lastOp'.error.code = "kAlreadyExists"
                  /\ lastOp'.reqs = <<>>
                  /\ UNCHANGED <<caches, mJoiners>>
             ELSE lastOp'.error.code # "kAlreadyExists"]_vars

\* C7 witness: a duplicate EnableJoiner with another PSKd was rejected.
C7_Witness ==
    /\ IsCall("EnableJoiner")
    /\ lastOp.active
    /\ lastOp.error.code = "kAlreadyExists"
    /\ \E kv \in mJoiners :
           /\ kv.key = JoinerKey(lastOp.args[1], ComputeJoinerId(lastOp.args[2]))
           /\ kv.info.mPSKd # lastOp.args[3]

-----------------------------------------------------------------------------
(* Properties of the session guard *)

IsSetRequest(r) == r.uri \in SetUris

\* C1: no MGMT_ACTIVE_SET, MGMT_PENDING_SET, MGMT_COMMISSIONER_SET or
\* MGMT_BBR_SET request is issued by CommissionerApp while the session is not
\* active, by the typed setters and by the raw setters alike.
C1_NoSetWhileNotActive ==
    \A i \in 1 .. Len(lastOp.reqs) :
        IsSetRequest(lastOp.reqs[i]) => lastOp.active

SessionDependentOps ==
    {"GetSessionId", "GetBorderAgentLocator", "GetSteeringData", "EnableJoiner",
     "DisableJoiner", "EnableAllJoiners", "DisableAllJoiners",
     "GetJoinerUdpPort", "SetJoinerUdpPort", "GetActiveTimestamp", "GetChannel",
     "SetChannel", "GetChannelMask", "SetChannelMask", "GetExtendedPanId",
     "SetExtendedPanId", "GetMeshLocalPrefix", "SetMeshLocalPrefix",
     "GetNetworkMasterKey", "SetNetworkMasterKey", "GetNetworkName",
     "SetNetworkName", "GetPanId", "SetPanId", "GetPSKc", "SetPSKc",
     "GetSecurityPolicy", "SetSecurityPolicy", "GetTriHostname",
     "SetTriHostname", "GetRegistrarHostname", "SetRegistrarHostname",
     "GetRegistrarIpv6Addr", "Reenroll", "DomainReset", "Migrate",
     "RegisterMulticastListener", "AnnounceBegin", "PanIdQuery", "EnergyScan"}

\* C8: a session-dependent operation called while the commissioner is not
\* active returns InvalidState ("not active", whatever else is wrong with the
\* call), issues no request and leaves the cached datasets and the joiner map
\* as they were.
C8_NotActiveIsInvalidState ==
    [][(opsLeft' # opsLeft /\ lastOp'.op \in SessionDependentOps /\ ~IsActive) =>
         /\ lastOp'.error = ErrNotActive
         /\ lastOp'.reqs = <<>>
         /\ UNCHANGED <<caches, mJoiners>>]_vars

\* C8 witness: EnableJoiner of a joiner that is already in the map, called
\* after the session was lost, returned InvalidState and not AlreadyExists.
C8_Witness ==
    /\ IsCall("EnableJoiner")
    /\ ~lastOp.active
    /\ lastOp.error = ErrNotActive
    /\ Count(mJoiners,
             JoinerKey(lastOp.args[1], ComputeJoinerId(lastOp.args[2]))) = 1

-----------------------------------------------------------------------------
(* Properties of MergeDataset *)

Merged(kind) == mrg # None /\ mrg.kind = kind /\ mrg.out # None

\* C9: merging into the Commissioner dataset leaves the present bit of
\* SteeringData, AeSteeringData, NmkpSteeringData, JoinerUdpPort, AeUdpPort
\* and NmkpUdpPort clear exactly when the field is absent from src (and set,
\* with src's value, when it is present); merging into the Active dataset
\* leaves value and present bit of a field absent from src unchanged.
C9_MergeAsymmetry ==
    /\ Merged("Commissioner") =>
         \A f \in Range(CommExtFieldSeq) :
            /\ (f \in mrg.out.mPresentFlags) = (f \in mrg.src.mPresentFlags)
            /\ f \in mrg.src.mPresentFlags => mrg.out.val[f] = mrg.src.val[f]
    /\ Merged("Active") =>
         \A f \in ActiveFields \ mrg.src.mPresentFlags :
            /\ (f \in mrg.out.mPresentFlags) = (f \in mrg.dst.mPresentFlags)
            /\ mrg.out.val[f] = mrg.dst.val[f]

\* C9 witness: a Commissioner merge cleared a SteeringData bit that was set in
\* dst and absent from src.
C9_Witness ==
    /\ Merged("Commissioner")
    /\ "SteeringData" \in mrg.dst.mPresentFlags
    /\ "SteeringData" \notin mrg.src.mPresentFlags
    /\ "SteeringData" \notin mrg.out.mPresentFlags
    /\ "JoinerUdpPort" \in mrg.out.mPresentFlags

FieldsOfKind(kind) ==
    CASE kind = "Active" -> ActiveFields
      [] kind = "Pending" -> PendingFields
      [] kind = "Bbr" -> BbrFields
      [] kind = "Commissioner" -> CommFields

\* C10: for the Active, Pending and BBR datasets the merge copies exactly the
\* fields present in src: such a field takes src's value and its bit is set,
\* any other field keeps dst's value and bit, so the present bits afterwards
\* are those of dst and src together; for Pending this covers the Active
\* fields, PendingTimestamp and DelayTimer.
C10_MergeIsGatedCopy ==
    (Merged("Active") \/ Merged("Pending") \/ Merged("Bbr")) =>
        /\ \A f \in FieldsOfKind(mrg.kind) :
              IF f \in mrg.src.mPresentFlags
              THEN /\ mrg.out.val[f] = mrg.src.val[f]
                   /\ f \in mrg.out.mPresentFlags
              ELSE /\ mrg.out.val[f] = mrg.dst.val[f]
                   /\ (f \in mrg.out.mPresentFlags) = (f \in mrg.dst.mPresentFlags)
        /\ mrg.out.mPresentFlags = mrg.dst.mPresentFlags \cup mrg.src.mPresentFlags

\* C10 witness: a Pending merge took DelayTimer and Channel from src and kept
\* PanId, absent from src, from dst.
C10_Witness ==
    /\ Merged("Pending")
    /\ {"DelayTimer", "Channel"} \subseteq mrg.src.mPresentFlags
    /\ "PanId" \in mrg.dst.mPresentFlags \ mrg.src.mPresentFlags
    /\ mrg.out.val["Channel"] = mrg.src.val["Channel"]
    /\ mrg.out.val["PanId"] = mrg.dst.val["PanId"]
    /\ mrg.src.val["PanId"] # mrg.dst.val["PanId"]
    /\ mrg.out.mPresentFlags = PendingFields

-----------------------------------------------------------------------------
(* Properties of pulling and getting the network data *)

\* two datasets with the same present bits and the same present values
SameDataset(a, b) ==
    /\ a.mPresentFlags = b.mPresentFlags
    /\ \A f \in a.mPresentFlags : a.val[f] = b.val[f]

\* C11: after a successful PullNetworkData each cached dataset that was
\* pulled (Commissioner, Active, Pending, and BBR in CCM mode) has the
\* present bits and the values of the dataset the network returned; no field
\* the network did not return stays present in the cache.
C11_PullReplacesLocal ==
    (Succeeded("Start") /\ lastOp.ret # None) =>
        /\ SameDataset(mCommDataset, lastOp.ret.comm)
        /\ SameDataset(mActiveDataset, lastOp.ret.active)
        /\ SameDataset(mPendingDataset, lastOp.ret.pending)
        /\ IsCcmMode => SameDataset(mBbrDataset, lastOp.ret.bbr)

\* the typed setters: the dataset each one sends to, and the field it sets
TypedSetters ==
    {[op |-> "SetChannel", kind |-> "Pending", fld |-> "Channel"],
     [op |-> "SetMeshLocalPrefix", kind |-> "Pending", fld |-> "MeshLocalPrefix"],
     [op |-> "SetNetworkMasterKey", kind |-> "Pending", fld |-> "NetworkMasterKey"],
     [op |-> "SetPanId", kind |-> "Pending", fld |-> "PanId"],
     [op |-> "SetChannelMask", kind |-> "Active", fld |-> "ChannelMask"],
     [op |-> "SetExtendedPanId", kind |-> "Active", fld |-> "ExtendedPanId"],
     [op |-> "SetNetworkName", kind |-> "Active", fld |-> "NetworkName"],
     [op |-> "SetPSKc", kind |-> "Active", fld |-> "PSKc"],
     [op |-> "SetSecurityPolicy", kind |-> "Active", fld |-> "SecurityPolicy"],
     [op |-> "SetTriHostname", kind |-> "Bbr", fld |-> "TriHostname"],
     [op |-> "SetRegistrarHostname", kind |-> "Bbr", fld |-> "RegistrarHostname"]}

DatasetKinds == {"Commissioner", "Active", "Pending", "Bbr"}

CacheOfKind(kind, c, a, p, b) ==
    CASE kind = "Commissioner" -> c
      [] kind = "Active" -> a
      [] kind = "Pending" -> p
      [] kind = "Bbr" -> b

SetUriOfKind(kind) ==
    CASE kind = "Commissioner" -> "MGMT_COMMISSIONER_SET"
      [] kind = "Active" -> "MGMT_ACTIVE_SET"
      [] kind = "Pending" -> "MGMT_PENDING_SET"
      [] kind = "Bbr" -> "MGMT_BBR_SET"

\* C12: a successful typed setter (SetChannel(ch, delay), SetPanId,
\* SetChannelMask, ...) sends one request whose dataset has exactly the set
\* field (and DelayTimer, for the Pending setters) present with the argument
\* values; afterwards the cache of that dataset has those fields present with
\* those values, its other fields are as before, and the other three caches
\* are as before.
C12_TypedSetterMergesSentFields ==
    [][\A t \in TypedSetters :
         (opsLeft' # opsLeft /\ lastOp'.op = t.op /\ lastOp'.error = NoError) =>
           LET sent == IF t.kind = "Pending" THEN {t.fld, "DelayTimer"} ELSE {t.fld}
               r == lastOp'.reqs[1]
               before == CacheOfKind(t.kind, mCommDataset, mActiveDataset,
                                     mPendingDataset, mBbrDataset)
               after == CacheOfKind(t.kind, mCommDataset', mActiveDataset',
                                    mPendingDataset', mBbrDataset')
           IN  /\ Len(lastOp'.reqs) = 1
               /\ r.uri = SetUriOfKind(t.kind)
               /\ r.arg.mPresentFlags = sent
               /\ r.arg.val[t.fld] = lastOp'.args[1]
               /\ t.kind = "Pending" => r.arg.val["DelayTimer"] = lastOp'.args[2]
               /\ after.mPresentFlags = before.mPresentFlags \cup sent
               /\ \A f \in sent : after.val[f] = r.arg.val[f]
               /\ \A f \in FieldsOfKind(t.kind) \ sent : after.val[f] = before.val[f]
               /\ \A k \in DatasetKinds \ {t.kind} :
                     CacheOfKind(k, mCommDataset', mActiveDataset',
                                 mPendingDataset', mBbrDataset')
                     = CacheOfKind(k, mCommDataset, mActiveDataset,
                                   mPendingDataset, mBbrDataset)]_vars

\* C12 witness: SetChannel succeeded; the Pending cache holds the channel and
\* the delay that were passed, the Active cache still holds another channel.
C12_Witness ==
    /\ Succeeded("SetChannel")
    /\ {"Channel", "DelayTimer"} \subseteq mPendingDataset.mPresentFlags
    /\ mPendingDataset.val["Channel"] = lastOp.args[1]
    /\ mPendingDataset.val["DelayTimer"] = lastOp.args[2]
    /\ Has(mActiveDataset, "Channel")
    /\ mActiveDataset.val["Channel"] # lastOp.args[1]

ExtFields == Range(CommExtFieldSeq)

CommSetSucceededStep ==
    /\ opsLeft' # opsLeft
    /\ lastOp'.op = "SetCommissionerDataset"
    /\ lastOp'.error = NoError

PullSucceededStep ==
    /\ opsLeft' # opsLeft
    /\ lastOp'.op = "Start"
    /\ lastOp'.error = NoError
    /\ lastOp'.ret # None

\* C13 as stated: SteeringData/JoinerUdpPort-family fields absent from a
\* dataset are cleared from the Commissioner cache when the dataset is merged
\* after a successful SET, and are kept in the cache when the dataset came
\* from a GET, be it GetCommissionerDataset or the MGMT_COMMISSIONER_GET of
\* PullNetworkData.
C13_GetPreservesAbsentFields ==
    [][/\ CommSetSucceededStep =>
            \A f \in ExtFields \ lastOp'.args[1].mPresentFlags :
                ~Has(mCommDataset', f)
       /\ (opsLeft' # opsLeft /\ lastOp'.op = "GetCommissionerDataset") =>
            mCommDataset' = mCommDataset
       /\ PullSucceededStep =>
            \A f \in ExtFields \ lastOp'.ret.comm.mPresentFlags :
                Has(mCommDataset', f) = Has(mCommDataset, f)]_vars

\* C13 amended: such fields are cleared from the Commissioner cache by the
\* merge after a successful SET and equally by the merge PullNetworkData does
\* with the dataset it got; GetCommissionerDataset merges nothing and leaves
\* the cache as it is.
C13_PullClearsAbsentFields ==
    [][/\ CommSetSucceededStep =>
            \A f \in ExtFields :
                Has(mCommDataset', f) = (f \in lastOp'.args[1].mPresentFlags)
       /\ (opsLeft' # opsLeft /\ lastOp'.op = "GetCommissionerDataset") =>
            UNCHANGED caches
       /\ PullSucceededStep =>
            \A f \in ExtFields :
                Has(mCommDataset', f) = (f \in lastOp'.ret.comm.mPresentFlags)]_vars

\* C13 witness: a pull whose MGMT_COMMISSIONER_GET returned no SteeringData
\* cleared the SteeringData bit of a cache that held a value for it.
C13_Witness ==
    /\ Succeeded("Start")
    /\ lastOp.ret # None
    /\ "SteeringData" \notin lastOp.ret.comm.mPresentFlags
    /\ ~Has(mCommDataset, "SteeringData")
    /\ mCommDataset.val["SteeringData"] # <<>>

-----------------------------------------------------------------------------
(* Properties of the dataset-changed notification *)

\* C14: the cached Active and Pending datasets are written only by the API
\* calls running on the caller's thread; handling a dataset-changed
\* notification never writes them from the notification or response
\* callback, so no callback write overwrites what a synchronous call such as
\* SetChannelMask or GetChannel left in the cache.
C14_OnlyApiCallsWriteCaches ==
    [][(mActiveDataset' # mActiveDataset \/ mPendingDataset' # mPendingDataset)
         => opsLeft' # opsLeft]_vars

-----------------------------------------------------------------------------
(* Properties of joiner admission *)

JoinerIds == {ComputeJoinerId(e) : e \in Eui64s}

InfosAt(key) == {kv.info : kv \in {x \in mJoiners : x.key = key}}

\* C15: GetJoinerInfo(type, id) returns the entry keyed exactly (type, id)
\* when there is one, otherwise the wildcard entry (type, JoinerId(0)) when
\* there is one, otherwise nothing; it never returns an entry of another
\* joiner type.
C15_WildcardFallbackLookup ==
    \A t \in JoinerTypes, id \in JoinerIds :
        LET r == GetJoinerInfo(t, id)
        IN  /\ IF InfosAt(JoinerKey(t, id)) # {}
               THEN r \in InfosAt(JoinerKey(t, id))
               ELSE IF InfosAt(Wildcard(t)) # {}
               THEN r \in InfosAt(Wildcard(t))
               ELSE r = None
            /\ r # None => r.mType = t

\* C15 witness: with a wildcard and a per-EUI entry of one type in the map, a
\* joiner with that EUI-64 was given its own entry, and another EUI-64 of the
\* same type gets the wildcard.
C15_Witness ==
    /\ lastOp.op = "JoinerJoins"
    /\ lastOp.ret # None
    /\ lastOp.ret.mEui64 = lastOp.args[2]
    /\ Count(mJoiners, Wildcard(lastOp.args[1])) = 1
    /\ \E e \in AdmissionEuis :
           /\ GetJoinerInfo(lastOp.args[1], ComputeJoinerId(e)) # None
           /\ GetJoinerInfo(lastOp.args[1], ComputeJoinerId(e)).mEui64 = 0

\* C16: while the only entry of type t is the wildcard that
\* EnableAllJoiners(t, ..) records, IsJoinerCommissioned(t, e) is false for
\* every non-zero EUI-64 e, also after joiners with that EUI-64 were admitted
\* through the wildcard.
C16_WildcardNeverCommissioned ==
    \A t \in JoinerTypes, e \in Eui64s \ {0} :
        (\A kv \in TypeEntries(mJoiners, t) : kv.info.mEui64 = 0)
            => ~IsJoinerCommissioned(t, e)

\* C16 witness: a joiner with a non-zero EUI-64 was admitted through the
\* wildcard entry and is not reported commissioned.
C16_Witness ==
    /\ lastOp.op = "JoinerJoins"
    /\ lastOp.error = NoError
    /\ lastOp.args[2] # 0
    /\ lastOp.ret.mEui64 = 0
    /\ TypeEntries(mJoiners, lastOp.args[1]) = {EntryAt(Wildcard(lastOp.args[1]))}
    /\ ~IsJoinerCommissioned(lastOp.args[1], lastOp.args[2])

\* C17: once a joiner with EUI-64 e, enabled by EnableJoiner(MeshCoP, e, ..),
\* has completed the joining flow (its entry looked up, JOIN_FIN accepted by
\* the commissioning handler) and while its entry exists,
\* IsJoinerCommissioned(MeshCoP, e) is true.
C17_JoinedIsCommissioned ==
    (/\ lastOp.op = "JoinerJoins"
     /\ lastOp.error = NoError
     /\ lastOp.args[1] = "kMeshCoP"
     /\ lastOp.ret.mEui64 = lastOp.args[2]
     /\ Count(mJoiners, JoinerKey("kMeshCoP", ComputeJoinerId(lastOp.args[2]))) = 1)
    => IsJoinerCommissioned("kMeshCoP", lastOp.args[2])

\* C18: a successful EnableAllJoiners(t, pskd, url) sends, and leaves cached,
\* type-t steering data of the single byte 0xFF, and leaves under the wildcard
\* key (t, JoinerId(0)) the entry with EUI-64 0 and the PSKd and URL of this
\* call, also when a wildcard entry was there before; on an active session
\* the call is never refused with AlreadyExists.
C18_EnableAllJoinersWildcard ==
    /\ (IsCall("EnableAllJoiners") /\ lastOp.active) =>
           lastOp.error.code # "kAlreadyExists"
    /\ Succeeded("EnableAllJoiners") =>
           LET t == lastOp.args[1]
               fld == SteeringField(t)
           IN  /\ Cardinality(CommSetRequests) = 1
               /\ \A r \in CommSetRequests :
                      Has(r.arg, fld) /\ r.arg.val[fld] = <<255>>
               /\ Has(mCommDataset, fld)
               /\ mCommDataset.val[fld] = <<255>>
               /\ InfosAt(Wildcard(t)) =
                      {JoinerInfo(t, 0, lastOp.args[2], lastOp.args[3])}

\* C18 witness: EnableAllJoiners succeeded with the second PSKd and URL, and
\* the wildcard entry and the cached steering data are the ones of this call.
C18_Witness ==
    /\ Succeeded("EnableAllJoiners")
    /\ lastOp.args[2] = "PSKD02"
    /\ GetJoinerInfo(lastOp.args[1], ComputeJoinerId(1)) # None
    /\ GetJoinerInfo(lastOp.args[1], ComputeJoinerId(1)).mPSKd = "PSKD02"
    /\ mCommDataset.val[SteeringField(lastOp.args[1])] = <<255>>

DisableAllSucceededStep ==
    opsLeft' # opsLeft /\ lastOp'.op = "DisableAllJoiners" /\ lastOp'.error = NoError

\* C19: a successful DisableAllJoiners(t) sends, and leaves cached, type-t
\* steering data of the single byte 0x00 and destroys every type-t entry, the
\* wildcard included, so that GetJoinerInfo(t, id) returns nothing for every
\* id; the entries of the other types remain.
C19_DisableAllJoinersErasesType ==
    [][DisableAllSucceededStep =>
       \A t \in JoinerTypes : t = lastOp'.args[1] =>
         LET fld == SteeringField(t)
         IN  /\ Len(lastOp'.reqs) = 1
             /\ lastOp'.reqs[1].uri = "MGMT_COMMISSIONER_SET"
             /\ Has(lastOp'.reqs[1].arg, fld)
             /\ lastOp'.reqs[1].arg.val[fld] = <<0>>
             /\ Has(mCommDataset', fld)
             /\ mCommDataset'.val[fld] = <<0>>
             /\ TypeEntries(mJoiners', t) = {}
             /\ \A id \in JoinerIds : GetJoinerInfo(t, id)' = None
             /\ mJoiners' = mJoiners \ TypeEntries(mJoiners, t)]_vars

\* C19 witness: DisableAllJoiners(t) succeeded, no type-t entry is left, and
\* an entry of another type is still in the map.
C19_Witness ==
    /\ Succeeded("DisableAllJoiners")
    /\ TypeEntries(mJoiners, lastOp.args[1]) = {}
    /\ mJoiners # {}
    /\ mCommDataset.val[SteeringField(lastOp.args[1])] = <<0>>

\* C20: DisableJoiner(t, e) on an active session whose map has no entry for
\* (t, JoinerId(e)) does not return NotFound: it sends one
\* MGMT_COMMISSIONER_SET with rebuilt type-t steering data, returns what that
\* request returned, and leaves the joiner map unchanged.
C20_DisableUnknownJoinerSilent ==
    [][(/\ opsLeft' # opsLeft
        /\ lastOp'.op = "DisableJoiner"
        /\ IsActive
        /\ Count(mJoiners, JoinerKey(lastOp'.args[1],
                                     ComputeJoinerId(lastOp'.args[2]))) = 0) =>
         /\ lastOp'.error \in {NoError, ErrTimeout}
         /\ Len(lastOp'.reqs) = 1
         /\ lastOp'.reqs[1].uri = "MGMT_COMMISSIONER_SET"
         /\ Has(lastOp'.reqs[1].arg, SteeringField(lastOp'.args[1]))
         /\ mJoiners' = mJoiners]_vars

\* C20 witness: DisableJoiner succeeded for an EUI-64 that has no entry, next
\* to an entry of the same type for another EUI-64.
C20_Witness ==
    /\ Succeeded("DisableJoiner")
    /\ Count(mJoiners, JoinerKey(lastOp.args[1], ComputeJoinerId(lastOp.args[2]))) = 0
    /\ lastOp.pre # None
    /\ lastOp.pre.mType = lastOp.args[1]
    /\ lastOp.pre.mEui64 # lastOp.args[2]
    /\ Count(mJoiners, JoinerKey(lastOp.pre.mType, ComputeJoinerId(lastOp.pre.mEui64))) = 1

-----------------------------------------------------------------------------
(* The random number helpers *)

\* A uint32_t is kept as <<hi, lo>>, two 16-bit halves, so that the
\* arithmetic is done at its width.
U32Less(a, b) == a[1] < b[1] \/ (a[1] = b[1] /\ a[2] < b[2])

\* conversion to uint32_t: modulo 2^32
U32Trunc(a) == <<a[1] % Pow(2, 16), a[2]>>

U32Add(a, b) ==
    <<a[1] + b[1] + ((a[2] + b[2]) \div Pow(2, 16)), (a[2] + b[2]) % Pow(2, 16)>>

\* a - b for a >= b
U32Minus(a, b) ==
    IF a[2] >= b[2] THEN <<a[1] - b[1], a[2] - b[2]>>
    ELSE <<a[1] - b[1] - 1, a[2] + Pow(2, 16) - b[2]>>

\* unsigned subtraction, wrapping below zero
U32Sub(a, b) == U32Trunc(U32Minus(<<a[1] + Pow(2, 16), a[2]>>, b))

\* k * a for a small k
U32Scale(a, k) ==
    <<a[1] * k + ((a[2] * k) \div Pow(2, 16)), (a[2] * k) % Pow(2, 16)>>

\* r % d for d > 0, one hexadecimal digit of the quotient at a time
RECURSIVE U32Mod(_, _)
U32Mod(r, d) ==
    IF U32Less(r, d) THEN r
    ELSE LET m == U32Mod(r, U32Scale(d, 16))
             k == CHOOSE k \in 0..15 :
                     ~U32Less(m, U32Scale(d, k)) /\ U32Less(m, U32Scale(d, k + 1))
         IN  U32Minus(m, U32Scale(d, k))

\* static_cast<uint8_t>(GetUint32() & 0xff), aRandom being what GetUint32 gave
GetUint8(aRandom) == aRandom[2] % Pow(2, 8)

GetUint16(aRandom) == aRandom[2]

\* the operands are promoted to int, the sum is converted to uint8_t
GetUint8InRange(aMin, aMax, aRandom) ==
    (aMin + (GetUint8(aRandom) % (aMax - aMin))) % Pow(2, 8)

GetUint16InRange(aMin, aMax, aRandom) ==
    (aMin + (GetUint16(aRandom) % (aMax - aMin))) % Pow(2, 16)

GetUint32InRangeMutant(aMin, aMax, aRandom) ==
    U32Trunc(U32Add(aMin, U32Mod(aRandom, U32Add(U32Sub(aMax, aMin), <<0, 1>>))))

GetUint32InRange(aMin, aMax, aRandom) ==
    U32Trunc(U32Add(aMin, U32Mod(aRandom, U32Sub(aMax, aMin))))

Uint8Edges == {0, 1, 2, 127, 128, 254, 255}

Uint16Edges == {0, 1, 255, 256, 32768, 65534, 65535}

Uint32Edges ==
    {<<0, 0>>, <<0, 1>>, <<0, 65535>>, <<1, 0>>, <<32767, 65535>>, <<32768, 0>>,
     <<65535, 65534>>, <<65535, 65535>>}

\* what GetUint32 may return
RandomWords ==
    {<<hi, lo>> : hi \in {0, 1, 32768, 65535},
                  lo \in {0, 1, 255, 256, 32767, 65535}}

RandomInit ==
    /\ PureInit
    /\ mrg \in
         {[kind |-> "Uint8", aMin |-> a, aMax |-> b, aRandom |-> r, out |-> None] :
             a \in Uint8Edges, b \in Uint8Edges, r \in RandomWords}
         \cup
         {[kind |-> "Uint16", aMin |-> a, aMax |-> b, aRandom |-> r, out |-> None] :
             a \in Uint16Edges, b \in Uint16Edges, r \in RandomWords}
         \cup
         {[kind |-> "Uint32", aMin |-> a, aMax |-> b, aRandom |-> r, out |-> None] :
             a \in Uint32Edges, b \in Uint32Edges, r \in RandomWords}
    /\ IF mrg.kind = "Uint32" THEN U32Less(mrg.aMin, mrg.aMax)
       ELSE mrg.aMin < mrg.aMax

\* the value returned is kept as <<hi, lo>> too
GetUint8InRangeCall ==
    MergeStep("Uint8", <<0, GetUint8InRange(mrg.aMin, mrg.aMax, mrg.aRandom)>>)

GetUint16InRangeCall ==
    MergeStep("Uint16", <<0, GetUint16InRange(mrg.aMin, mrg.aMax, mrg.aRandom)>>)

GetUint32InRangeCall ==
    MergeStep("Uint32", GetUint32InRange(mrg.aMin, mrg.aMax, mrg.aRandom))

RandomNext == GetUint8InRangeCall \/ GetUint16InRangeCall \/ GetUint32InRangeCall

RandomSpec == RandomInit /\ [][RandomNext]_vars

\* AddJitter: the jitter is first limited to the value, then a number of
\* [0, 2 * aJitter] is added and aJitter subtracted, all as uint32_t.
AddJitter(aValue, aJitter, aRandom) ==
    LET jitter == IF ~U32Less(aValue, <<0, aJitter>>) THEN aJitter ELSE aValue[2]
        range  == <<(2 * jitter + 1) \div Pow(2, 16), (2 * jitter + 1) % Pow(2, 16)>>
    IN  U32Sub(U32Trunc(U32Add(aValue, GetUint32InRange(<<0, 0>>, range, aRandom))),
               <<0, jitter>>)

JitterInit ==
    /\ PureInit
    /\ mrg \in
         {[kind |-> "Jitter", aValue |-> v, aJitter |-> j, aRandom |-> r, out |-> None] :
             v \in Uint32Edges, j \in Uint16Edges, r \in RandomWords}

AddJitterCall == MergeStep("Jitter", AddJitter(mrg.aValue, mrg.aJitter, mrg.aRandom))

JitterSpec == JitterInit /\ [][AddJitterCall]_vars

-----------------------------------------------------------------------------
(* The entrance of the CLI *)

\* A C string is a sequence of characters; argv is the sequence of the
\* arguments, argv[0] of the code being its first element.
UpperCase ==
    <<"A", "B", "C", "D", "E", "F", "G", "H", "I", "J", "K", "L", "M",
      "N", "O", "P", "Q", "R", "S", "T", "U", "V", "W", "X", "Y", "Z">>

LowerCase ==
    <<"a", "b", "c", "d", "e", "f", "g", "h", "i", "j", "k", "l", "m",
      "n", "o", "p", "q", "r", "s", "t", "u", "v", "w", "x", "y", "z">>

\* every upper case letter replaced by its lower case letter
ToLower(aStr) ==
    [i \in DOMAIN aStr |->
        IF \E k \in DOMAIN UpperCase : UpperCase[k] = aStr[i]
        THEN LowerCase[CHOOSE k \in DOMAIN UpperCase : UpperCase[k] = aStr[i]]
        ELSE aStr[i]]

ArgvAt(argv, k) == argv[k + 1]

Written(text, arg, color) == [text |-> text, arg |-> arg, color |-> color]

PrintUsage(aProgram) == Written("usage: <program> <config-file>", aProgram, "kWhite")

PrintVersion == Written("OT_COMM_VERSION", <<>>, "kWhite")

Exited(ret, console, init, run) ==
    [ret |-> ret, console |-> console, init |-> init, run |-> run]

mainMutant(argc, argv, aInitError) ==
    IF \/ argc < 2
       \/ ToLower(ArgvAt(argv, 1)) = <<"-", "h">>
       \/ ToLower(ArgvAt(argv, 1)) = <<"-", "-", "h", "e", "l", "p">>
    THEN Exited(0, <<PrintUsage(ArgvAt(argv, 0))>>, FALSE, FALSE)
    ELSE IF \/ ToLower(ArgvAt(argv, 1)) = <<"-", "v">>
            \/ ToLower(ArgvAt(argv, 1)) = <<"-", "-", "v", "e", "r", "s", "i", "o", "n">>
    THEN Exited(0, <<PrintVersion>>, FALSE, FALSE)
    ELSE IF aInitError # NoError
    THEN Exited(0,
                <<Written("kLogo", <<>>, "kBlue"),
                  Written("start OT-commissioner CLI failed: ", <<aInitError.code>>, "kRed")>>,
                TRUE, FALSE)
    ELSE Exited(0, <<Written("kLogo", <<>>, "kBlue")>>, TRUE, TRUE)

\* main: aInitError is what gInterpreter.Init(argv[1]) returns when it is
\* called; the value is what main returns, what it wrote to the console, and
\* whether Init and Run were called.
main(argc, argv, aInitError) ==
    IF \/ argc < 2
       \/ ToLower(ArgvAt(argv, 1)) = <<"-", "h">>
       \/ ToLower(ArgvAt(argv, 1)) = <<"-", "-", "h", "e", "l", "p">>
    THEN Exited(0, <<PrintUsage(ArgvAt(argv, 0))>>, FALSE, FALSE)
    ELSE IF \/ ToLower(ArgvAt(argv, 1)) = <<"-", "v">>
            \/ ToLower(ArgvAt(argv, 1)) = <<"-", "-", "v", "e", "r", "s", "i", "o", "n">>
    THEN Exited(0, <<PrintVersion>>, FALSE, FALSE)
    ELSE IF aInitError # NoError
    THEN Exited(-1,
                <<Written("kLogo", <<>>, "kBlue"),
                  Written("start OT-commissioner CLI failed: ", <<aInitError.code>>, "kRed")>>,
                TRUE, FALSE)
    ELSE Exited(0, <<Written("kLogo", <<>>, "kBlue")>>, TRUE, TRUE)

\* the exit code the parent process sees: the low eight bits of what main
\* returned
ExitCode(ret) == ret % 256

Programs == {<<"c", "l", "i">>, <<"-", "h">>}

FirstArgs ==
    {<<"-", "h">>, <<"-", "H">>, <<"-", "-", "h", "e", "l", "p">>,
     <<"-", "-", "H", "e", "L", "P">>, <<"-", "v">>, <<"-", "V">>,
     <<"-", "-", "v", "e", "r", "s", "i", "o", "n">>,
     <<"-", "-", "V", "E", "R", "S", "I", "O", "N">>,
     <<"-", "-", "h">>, <<"h", "e", "l", "p">>, <<"-", "x">>, <<>>,
     <<"c", ".", "j", "s", "o", "n">>, <<"C", ".", "J", "S", "O", "N">>}

MoreArgs == {<<"-", "v">>, <<"x">>}

Argvs ==
    {<<p>> : p \in Programs}
    \cup {<<p, a>> : p \in Programs, a \in FirstArgs}
    \cup {<<p, a, b>> : p \in Programs, a \in FirstArgs, b \in MoreArgs}

InitErrors ==
    {NoError, ERROR_INVALID_ARGS("bad config"), ERROR_NOT_FOUND("no config file"),
     ERROR_INVALID_STATE("init failed")}

MainInit ==
    /\ PureInit
    /\ mrg \in {[kind |-> "Main", argv |-> a, aInitError |-> e, out |-> None] :
                   a \in Argvs, e \in InitErrors}

MainCall == MergeStep("Main", main(Len(mrg.argv), mrg.argv, mrg.aInitError))

MainSpec == MainInit /\ [][MainCall]_vars

-----------------------------------------------------------------------------
(* Properties of the report maps *)

QuerySentStep(name) ==
    opsLeft' # opsLeft /\ lastOp'.op = name /\ lastOp'.error = NoError

\* C21: when a new PanIdQuery has been issued no PAN ID has a conflict
\* recorded, and when a new EnergyScan has been issued no address has an
\* energy report: what earlier queries collected is gone.
C21_NewQueryResetsReports ==
    [][/\ QuerySentStep("PanIdQuery") =>
              \A p \in PanIds : ~HasPanIdConflict(p)'
       /\ QuerySentStep("EnergyScan") =>
              \A a \in PeerAddrs : GetEnergyReport(a)' = None]_vars

\* a step that is not a call and leaves the named handler as the last one run
HandledStep(name) == opsLeft' = opsLeft /\ lastOp'.op = name

\* C22: after a conflict notification without error for PAN ID p has been
\* handled, HasPanIdConflict(p) is true, the channel mask stored for p is the
\* one of this notification, and the other PAN IDs keep what they had; a
\* notification delivered with an error leaves the map as it was.
C22_ConflictsAggregatedByPanId ==
    [][HandledStep("HandlePanIdConflict") =>
         \A p \in PanIds, m \in ChannelMasks :
             (lastOp'.args[3] = p /\ lastOp'.args[2] = m) =>
                 IF lastOp'.error = NoError
                 THEN /\ HasPanIdConflict(p)'
                      /\ mPanIdConflicts'[p] = m
                      /\ \A q \in PanIds \ {p} :
                             /\ HasPanIdConflict(q)' = HasPanIdConflict(q)
                             /\ HasPanIdConflict(q) =>
                                    mPanIdConflicts'[q] = mPanIdConflicts[q]
                 ELSE mPanIdConflicts' = mPanIdConflicts]_vars

\* C22 witness: two PAN IDs have a conflict recorded, and the last
\* notification replaced the channel mask of its PAN ID by another one.
C22_Witness ==
    /\ lastOp.op = "HandlePanIdConflict"
    /\ lastOp.error = NoError
    /\ \A p \in PanIds : HasPanIdConflict(p)
    /\ mPanIdConflicts[lastOp.args[3]] = lastOp.args[2]
    /\ \E p \in PanIds : mPanIdConflicts[p] # lastOp.args[2]

-----------------------------------------------------------------------------
(* Properties of the commands *)

\* the MLR request was sent and answered
MlrCompleted == Len(lastOp.reqs) = 2 /\ lastOp.error # ErrTimeout

\* C23: RegisterMulticastListener on an active session whose MLR request
\* completed returns success exactly when the status of MLR.rsp is 0 and
\* Rejected for every other status; when resolving the primary BBR address or
\* the request itself failed it returns that error, with no status read.
C23_MlrSuccessIffStatusZero ==
    (IsCall("RegisterMulticastListener") /\ lastOp.active) =>
        IF MlrCompleted
        THEN /\ lastOp.error = NoError <=> lastOp.ret = kMlrStatusSuccess
             /\ lastOp.ret # kMlrStatusSuccess => lastOp.error.code = "kRejected"
        ELSE /\ lastOp.error.code \in {"kTimeout", "kNotFound"}
             /\ lastOp.ret = None
             /\ Len(lastOp.reqs) = 1 => lastOp.reqs[1].uri = "MGMT_ACTIVE_GET"

\* C23 witness: the MLR request completed with a non-zero status and the call
\* returned Rejected.
C23_Witness ==
    /\ IsCall("RegisterMulticastListener")
    /\ MlrCompleted
    /\ lastOp.ret # kMlrStatusSuccess
    /\ lastOp.error.code = "kRejected"

-----------------------------------------------------------------------------
(* Properties of the session *)

\* C24: AbortRequests does not resign: the session state after it is the one
\* before it, and the joiner map and the four cached datasets are unchanged.
C24_AbortRequestsKeepsSession ==
    [][(opsLeft' # opsLeft /\ lastOp'.op = "AbortRequests") =>
          /\ mState' = mState
          /\ UNCHANGED <<caches, mJoiners>>]_vars

\* C24 witness: AbortRequests was called on an active session with a joiner
\* enabled, and the session is still active.
C24_Witness ==
    /\ IsCall("AbortRequests")
    /\ lastOp.active
    /\ IsActive
    /\ mJoiners # {}
    /\ Has(mCommDataset, "SteeringData")

StartSucceededStep ==
    opsLeft' # opsLeft /\ lastOp'.op = "Start" /\ lastOp'.error = NoError

UrisOf(reqs) == {reqs[i].uri : i \in 1 .. Len(reqs)}

-----------------------------------------------------------------------------
(* Properties of the Active and BBR datasets *)

ActiveSetRequests ==
    {lastOp.reqs[i] : i \in {j \in 1 .. Len(lastOp.reqs) :
                                lastOp.reqs[j].uri = "MGMT_ACTIVE_SET"}}

\* C27: every MGMT_ACTIVE_SET request issued on an active session carries a
\* dataset whose ActiveTimestamp is present (the first half of the claim; the
\* order of the values sent is about these timestamps).
C27_ActiveSetCarriesTimestamp ==
    lastOp.active =>
        \A r \in ActiveSetRequests : Has(r.arg, "ActiveTimestamp")

CcmOnlyOps ==
    {"GetTriHostname", "SetTriHostname", "GetRegistrarHostname",
     "SetRegistrarHostname", "GetRegistrarIpv6Addr", "Reenroll", "DomainReset",
     "Migrate"}

\* C28: on an Active session that is not in CCM mode the BBR getters and
\* setters and Reenroll, DomainReset and Migrate return InvalidState, issue no
\* request and leave the BBR cache unchanged; and a pull of the network data
\* in non-CCM mode neither requests nor changes the BBR dataset.
C28_BbrOpsNeedCcm ==
    [][(opsLeft' # opsLeft /\ ~IsCcmMode) =>
          /\ (IsActive /\ lastOp'.op \in CcmOnlyOps) =>
                /\ lastOp'.error.code = "kInvalidState"
                /\ lastOp'.reqs = <<>>
                /\ mBbrDataset' = mBbrDataset
          /\ lastOp'.op = "Start" =>
                /\ "MGMT_BBR_GET" \notin UrisOf(lastOp'.reqs)
                /\ mBbrDataset' = mBbrDataset]_vars

\* C28 witness: a CCM-only command was refused on an active non-CCM session
\* that has pulled the network data.
C28_Witness ==
    /\ lastOp.op \in {"Reenroll", "DomainReset", "Migrate"}
    /\ lastOp.active
    /\ ~IsCcmMode
    /\ lastOp.error.code = "kInvalidState"
    /\ Has(mActiveDataset, "Channel")
    /\ mBbrDataset = EmptyDataset(BbrFields)

-----------------------------------------------------------------------------
(* Properties of the pure functions *)

\* byte k of a value, counted from the least significant one
ByteOf(v, k) == (v \div Pow(256, k)) % 256

\* C29: ComputeJoinerId(eui64) is kJoinerIdLength = 8 bytes long: the first 8
\* bytes of the digest of the 8 bytes of the EUI-64, most significant first,
\* with 0x02 OR-ed into byte 0, so that byte 0 has that bit set.
C29_JoinerIdLaw ==
    (mrg.kind = "JoinerId" /\ mrg.out # None) =>
        LET be == [i \in 1 .. 8 |-> IF i <= 4 THEN 0 ELSE ByteOf(mrg.aEui64, 8 - i)]
            digest == Sha256(be)
        IN  /\ Len(mrg.out) = 8
            /\ TestBit(mrg.out[1], 1)
            /\ mrg.out[1] = IF TestBit(digest[1], 1) THEN digest[1]
                            ELSE digest[1] + 2
            /\ \A i \in 2 .. 8 : mrg.out[i] = digest[i]

\* C29 witness: a joiner ID whose byte 0 differs from the digest's byte 0,
\* computed from an EUI-64 with more than one non-zero byte.
C29_Witness ==
    /\ mrg.kind = "JoinerId"
    /\ mrg.out # None
    /\ mrg.aEui64 > 256
    /\ mrg.out[1] # Sha256(Encode(mrg.aEui64))[1]

\* C30: for aMin < aMax, GetUint8InRange, GetUint16InRange and
\* GetUint32InRange return a value r with aMin <= r < aMax whatever GetUint32
\* returned, at the width of the return type.
C30_RandomInRange ==
    /\ (mrg.kind \in {"Uint8", "Uint16"} /\ mrg.out # None) =>
          /\ mrg.out[1] = 0
          /\ mrg.aMin <= mrg.out[2]
          /\ mrg.out[2] < mrg.aMax
    /\ (mrg.kind = "Uint32" /\ mrg.out # None) =>
          /\ ~U32Less(mrg.out, mrg.aMin)
          /\ U32Less(mrg.out, mrg.aMax)

\* C30 witness: a 32-bit result strictly inside a range that ends at the
\* largest uint32_t, from a random word beyond the range.
C30_Witness ==
    /\ mrg.kind = "Uint32"
    /\ mrg.out # None
    /\ mrg.aMax = <<65535, 65535>>
    /\ U32Less(mrg.aMax, U32Add(mrg.aRandom, <<0, 1>>))
    /\ U32Less(mrg.aMin, mrg.out)

\* C31: AddJitter(aValue, aJitter) returns a value r with
\* aValue - aJitter <= r <= aValue + aJitter as integers, for every uint32_t
\* aValue and uint16_t aJitter: nothing wraps below 0 or above 2^32 - 1.
C31_JitterWithinBounds ==
    (mrg.kind = "Jitter" /\ mrg.out # None) =>
        /\ ~U32Less(U32Add(mrg.out, <<0, mrg.aJitter>>), mrg.aValue)
        /\ ~U32Less(U32Add(mrg.aValue, <<0, mrg.aJitter>>), mrg.out)

\* what C31 says holds whenever aValue + aJitter fits in 32 bits
C31_JitterWithinBoundsBelowMax ==
    (/\ mrg.kind = "Jitter"
     /\ mrg.out # None
     /\ U32Less(U32Add(mrg.aValue, <<0, mrg.aJitter>>), <<Pow(2, 16), 0>>)) =>
        /\ ~U32Less(U32Add(mrg.out, <<0, mrg.aJitter>>), mrg.aValue)
        /\ ~U32Less(U32Add(mrg.aValue, <<0, mrg.aJitter>>), mrg.out)


-----------------------------------------------------------------------------
(* Properties of the CLI *)

HelpFlags == {<<"-", "h">>, <<"-", "-", "h", "e", "l", "p">>}

VersionFlags == {<<"-", "v">>, <<"-", "-", "v", "e", "r", "s", "i", "o", "n">>}

MainReturned == mrg.kind = "Main" /\ mrg.out # None

\* C32: started with -h or --help the program writes the usage, started with
\* -v or --version it writes the version, and in both cases it exits with code
\* 0 and the interpreter is not initialised; started with a configuration
\* file, the exit code is not 0 when the initialisation of the interpreter
\* fails, and it is 0 when the initialisation succeeds and Run returns.
C32_ExitCodes ==
    (MainReturned /\ Len(mrg.argv) >= 2) =>
        LET arg == ArgvAt(mrg.argv, 1) IN
        /\ arg \in HelpFlags =>
              /\ ExitCode(mrg.out.ret) = 0
              /\ mrg.out.console = <<PrintUsage(ArgvAt(mrg.argv, 0))>>
              /\ ~mrg.out.init
        /\ arg \in VersionFlags =>
              /\ ExitCode(mrg.out.ret) = 0
              /\ mrg.out.console = <<PrintVersion>>
              /\ ~mrg.out.init
        /\ (mrg.out.init /\ mrg.aInitError # NoError) =>
              /\ ExitCode(mrg.out.ret) # 0
              /\ ~mrg.out.run
        /\ (mrg.out.init /\ mrg.aInitError = NoError) =>
              /\ mrg.out.run
              /\ ExitCode(mrg.out.ret) = 0
        /\ ToLower(arg) \notin HelpFlags \cup VersionFlags => mrg.out.init

\* C32 witness: the initialisation from a configuration file failed, the
\* failure was written to the console and the exit code is 255.
C32_Witness ==
    /\ MainReturned
    /\ Len(mrg.argv) = 2
    /\ ArgvAt(mrg.argv, 1) = <<"c", ".", "j", "s", "o", "n">>
    /\ mrg.out.init
    /\ ~mrg.out.run
    /\ Len(mrg.out.console) = 2
    /\ mrg.out.console[2].color = "kRed"
    /\ ExitCode(mrg.out.ret) = 255


-----------------------------------------------------------------------------
(* Properties of Start and PullNetworkData *)

\* C33: whenever the commissioner is active, the cached Commissioner dataset
\* has BorderAgentLocator present and the cached Active dataset has
\* ActiveTimestamp present, and no call has ended in a failed ASSERT; the
\* state after a Start whose petition succeeded is one of these states.
C33_ActiveHasLocatorAndTimestamp ==
    /\ IsActive =>
          /\ Has(mCommDataset, "BorderAgentLocator")
          /\ Has(mActiveDataset, "ActiveTimestamp")
    /\ lastOp # None => lastOp.error # ErrAssert


\* a call of Start whose petition succeeded and whose PullNetworkData failed
PullFailedStep ==
    /\ opsLeft' # opsLeft
    /\ lastOp'.op = "Start"
    /\ Len(lastOp'.reqs) >= 2
    /\ lastOp'.error # NoError

\* C34: when one of the GET requests of PullNetworkData fails (Commissioner,
\* BBR in CCM mode, Active or Pending), the error of that request is returned
\* and the four cached datasets are what they were before the call, also when
\* the GETs before the failed one had succeeded.
C34_PullAllOrNothing ==
    [][PullFailedStep =>
          /\ UNCHANGED caches
          /\ lastOp'.error = ErrTimeout
          /\ lastOp'.ret = None
          /\ lastOp'.reqs[Len(lastOp'.reqs)].uri \in
                {"MGMT_COMMISSIONER_GET", "MGMT_BBR_GET", "MGMT_ACTIVE_GET",
                 "MGMT_PENDING_GET"}]_vars

\* C34 witness: the caches hold what an earlier Start pulled, and a later
\* Start failed at MGMT_PENDING_GET, after its other GETs had succeeded.
C34_Witness ==
    /\ IsCall("Start")
    /\ lastOp.error = ErrTimeout
    /\ lastOp.reqs[Len(lastOp.reqs)].uri = "MGMT_PENDING_GET"
    /\ Has(mCommDataset, "BorderAgentLocator")
    /\ Has(mActiveDataset, "Channel")


\* C35: when Start returns an error, be it from the petition or from
\* PullNetworkData, the commissioner is not active afterwards; so Start
\* returns success exactly when the session ends up active.
C35_FailedStartIsNotActive ==
    [][(opsLeft' # opsLeft /\ lastOp'.op = "Start") =>
          (lastOp'.error = NoError <=> IsActive')]_vars


====
